---------------------------- MODULE Spec2Model ----------------------------
(***************************************************************************)
(* statusBot: the monitoring/alerting core.                                *)
(*                                                                         *)
(*   src/src/system.js     getCpuUsage, checkSystemHealth, getSystemMetrics*)
(*   src/src/tests.js      runHttpTest, runTcpTest, runAllTests            *)
(*   src/src/scheduler.js  startMonitoring, stopMonitoring                 *)
(*   src/unnamed/part_000  the tables tests and system_metrics             *)
(*   src/unnamed/part_001  sendToAllUsers                                  *)
(*                                                                         *)
(* One action is one run-to-completion step of the Node.js event loop: a   *)
(* call from the outside, a timer, an I/O completion or a cron firing,     *)
(* together with every promise continuation it makes runnable.  An await   *)
(* whose promise is still pending ends the step.                           *)
(*                                                                         *)
(* Two specifications share the actions:                                   *)
(*   Spec       the exported operations called directly, in any order and  *)
(*              overlapping, at most MaxCalls calls;                       *)
(*   SpecSched  startMonitoring / stopMonitoring with the cron firings,    *)
(*              at most MaxTicks firings.                                  *)
(***************************************************************************)
EXTENDS Integers, Sequences, FiniteSets, TLC

(***************************************************************************)
(* Bounds of the model.                                                    *)
(***************************************************************************)
MaxCalls == 3      \* direct calls of exported operations (Spec)
MaxTicks == 2      \* cron firings (SpecSched)
MaxStops == 2      \* calls of stopMonitoring (SpecSched)
MaxTime  == 1      \* the clock runs over the seconds 0..MaxTime
MaxTick  == 1      \* CPU tick counters are read in 0..MaxTick

(***************************************************************************)
(* Program constants: the thresholds of system.js (the defaults taken when *)
(* the environment variable is unset).                                     *)
(***************************************************************************)
RAM_WARNING_THRESHOLD   == 85
RAM_CRITICAL_THRESHOLD  == 95
CPU_WARNING_THRESHOLD   == 80
CPU_CRITICAL_THRESHOLD  == 90
DISK_WARNING_THRESHOLD  == 85
DISK_CRITICAL_THRESHOLD == 95

\* JavaScript null / undefined in a numeric slot.
null == -1

\* A target address: the text before the first colon and the number after
\* it, null where the address has no colon (target.split(':') leaves port
\* undefined).  Two addresses are the same string iff the two parts agree.
\* The configured targets: HTTP_ENDPOINTS and TCP_HOSTS after parseTestConfig.
\* The two targets share the display name and the address string and differ
\* in the test type only.
HttpTests == << [name |-> "svc", target |-> [host |-> "t1", port |-> 80]] >>
TcpTests  == << [name |-> "svc", target |-> [host |-> "t1", port |-> 80]] >>

\* The test configurations runTcpTest is called with directly: a configured
\* one, and one whose address names no port.
TcpConfigs ==
    { TcpTests[i] : i \in DOMAIN TcpTests }
    \cup { [name |-> "svc", target |-> [host |-> "t1", port |-> null]] }

VARIABLES
    now,                   \* wall clock, in seconds (CURRENT_TIMESTAMP)
    tests,                 \* table tests, in insertion (rowid) order
    system_metrics,        \* table system_metrics, in insertion order
    sent,                  \* messages handed to sendToAllUsers, in order
    previousCpuInfo,       \* system.js: the CPU baseline, or null
    cpuReads,              \* number of getCpuUsage calls so far
    health,                \* the checkSystemHealth invocations
    metricsCalls,          \* the getSystemMetrics invocations (what they returned)
    probes,                \* the runHttpTest / runTcpTest invocations
    runs,                  \* the runAllTests invocations
    testInterval,          \* scheduler.js: the three cron tasks
    systemMonitorInterval,
    dailyReportTask,
    monitor,               \* scheduler.js: the rest of the scheduler's state
    reports,               \* the generateDailyReport invocations
    env,                   \* what the host and the network can do in this run
    process,               \* "running", or "crashed" by an uncaught exception
    broadcasts,            \* the sendToAllUsers invocations followed recipient by recipient
    daily,                 \* the daily report's cron task against the clock of the day
    testConfig,            \* HTTP_ENDPOINTS and TCP_HOSTS as runAllTests resolves them
    connects,              \* runTcpTest: the socket.connect calls made, from the target text
    usageCalls,            \* getCpuUsage called directly: each reading and the value returned
    calls,                 \* direct calls made so far
    ticks                  \* cron firings so far

vars == << now, tests, system_metrics, sent, previousCpuInfo, cpuReads, health,
           metricsCalls, probes, runs, testInterval, systemMonitorInterval,
           dailyReportTask, monitor, reports, env, process, broadcasts, daily,
           testConfig, connects, usageCalls, calls, ticks >>

storeVars == << tests, system_metrics >>
cpuVars   == << previousCpuInfo, cpuReads >>
taskVars  == << testInterval, systemMonitorInterval, dailyReportTask >>
schedVars == << testInterval, systemMonitorInterval, dailyReportTask, monitor, reports >>
testVars  == << probes, runs, tests >>
confVars  == << env, broadcasts, daily, testConfig, connects, usageCalls >>
hostVars  == << confVars, process >>
sysVars   == << health, system_metrics, previousCpuInfo, cpuReads, metricsCalls >>

\* An uncaught exception or an unhandled rejection ends the process (no
\* handler for either is installed): nothing runs after it.
Running == process = "running"

-----------------------------------------------------------------------------
(***************************************************************************)
(* The store.  timestamp has a resolution of one second, and the two       *)
(* last-status queries order by it alone: among the rows that carry the    *)
(* greatest timestamp SQL leaves the choice of the LIMIT 1 row open.       *)
(***************************************************************************)
Severities == {"healthy", "warning", "critical"}

Latest(rows, idx) == { i \in idx : \A j \in idx : rows[j].timestamp <= rows[i].timestamp }

\* getLastSystemStatus.get(): the statuses the query may return, "none" for
\* undefined (no row).
getLastSystemStatus ==
    IF system_metrics = << >> THEN {"none"}
    ELSE { system_metrics[i].status : i \in Latest(system_metrics, DOMAIN system_metrics) }

\* insertSystemMetric.run(..., status, warningMessage): of the columns the
\* rows keep status, disk_usage_percent and timestamp, and the invocation that wrote them.
insertSystemMetricReplaces(status, disk, c) ==
    << [status |-> status, disk_usage_percent |-> disk, timestamp |-> now, cycle |-> c] >>
insertSystemMetric(status, disk, c) ==
    Append(system_metrics, [status |-> status, disk_usage_percent |-> disk,
                            timestamp |-> now, cycle |-> c])

\* getLastTestResult.get(target, testType)
MatchingTestsAnyType(target, testType) ==
    { i \in DOMAIN tests : tests[i].target = target }
MatchingTests(target, testType) ==
    { i \in DOMAIN tests : tests[i].target = target /\ tests[i].test_type = testType }

getLastTestResult(target, testType) ==
    IF MatchingTests(target, testType) = {} THEN {"none"}
    ELSE { tests[i].status : i \in Latest(tests, MatchingTests(target, testType)) }

\* insertTestResult.run(testType, name, target, status, responseTime, errorMessage, isRecovery)
insertTestResult(testType, name, target, status, errorMessage, isRecovery, p) ==
    Append(tests,
           [test_type |-> testType, test_name |-> name, target |-> target,
            status |-> status, error_message |-> errorMessage,
            is_recovery |-> isRecovery, timestamp |-> now, probe |-> p])

\* sendToAllUsers(message): the message is handed to the notifier.  delivery
\* is "pending" until the call has settled, then the outcome of the attempt
\* for each recipient.
Message(kind, op, id) == [kind |-> kind, op |-> op, id |-> id, delivery |-> "pending"]

\* telegram.js lines 10-20: sendMessage awaits bot.sendMessage in a try whose
\* catch logs the error; its promise resolves on either outcome.
SendMessageThrows(outcome) == IF outcome = "fail" THEN "rejected" ELSE "resolved"
SendMessage(outcome) == IF outcome = "fail" THEN "resolved" ELSE "resolved"

\* telegram.js lines 22-30: sendToAllUsers awaits sendMessage for one
\* recipient after the other; a rejection would leave the loop and reject.
SendToAllUsersFailFast(outcomes) ==
    IF \E k \in DOMAIN outcomes : outcomes[k] = "fail" THEN "rejected" ELSE "resolved"
SendToAllUsersSettles(outcomes) ==
    IF \E k \in DOMAIN outcomes : SendMessage(outcomes[k]) = "rejected"
    THEN "rejected" ELSE "resolved"

\* The message of the invocation (op, id) that is still in delivery.
PendingMessage(op, id) ==
    CHOOSE i \in DOMAIN sent :
        sent[i].op = op /\ sent[i].id = id /\ sent[i].delivery = "pending"

\* insert.run(...) returns, or throws where the store can fail.
StoreThrows == IF env.storeFaults THEN BOOLEAN ELSE {FALSE}

-----------------------------------------------------------------------------
(***************************************************************************)
(* system.js: getCpuUsage.                                                 *)
(***************************************************************************)
Abs(x) == IF x < 0 THEN -x ELSE x

\* ~~(a / b): NaN and +-Infinity (b = 0) give 0, anything else is truncated
\* towards zero.  (The wrap of ~~ to 32 bits needs a quotient of 2^31 or more,
\* which 100 times a tick difference within 0..MaxTick never is.)
TruncDiv(a, b) ==
    IF b = 0 THEN 0
    ELSE IF (a >= 0) = (b > 0) THEN Abs(a) \div Abs(b)
    ELSE -(Abs(a) \div Abs(b))

Max(a, b) == IF a >= b THEN a ELSE b
Min(a, b) == IF a <= b THEN a ELSE b

\* Math.max(0, Math.min(100, cpuPercentage))
ClampUnclamped(cpuPercentage) == cpuPercentage
Clamp(cpuPercentage) == Max(0, Min(100, cpuPercentage))

\* The (idle, total) averages os.cpus() may give.
CpuReadings == [idle : 0..MaxTick, total : 0..MaxTick]
NoCpuInfo == [idle |-> null, total |-> null]

\* The value getCpuUsage returns for the reading cur with the baseline prev.
CpuPercentageNoBaseline(prev, cur) ==
    IF prev = NoCpuInfo THEN 100
    ELSE Clamp(100 - TruncDiv(100 * (cur.idle - prev.idle), cur.total - prev.total))
CpuPercentage(prev, cur) ==
    IF prev = NoCpuInfo THEN null
    ELSE Clamp(100 - TruncDiv(100 * (cur.idle - prev.idle), cur.total - prev.total))


\* getCpuUsage(): the baseline is overwritten with the reading cur; the result
\* is the value returned.
getCpuUsageKeepsBaseline(cur) ==
    /\ previousCpuInfo' = IF previousCpuInfo = NoCpuInfo THEN cur ELSE previousCpuInfo
    /\ cpuReads' = cpuReads + 1
getCpuUsage(cur) ==
    /\ previousCpuInfo' = cur
    /\ cpuReads' = cpuReads + 1

-----------------------------------------------------------------------------
(***************************************************************************)
(* system.js: checkSystemHealth.                                           *)
(***************************************************************************)
\* os memory readings as ramInfo.usagePercent, and df's Use% column; null is
\* getDiskUsage returning undefined.
RamSamples  == {RAM_WARNING_THRESHOLD - 1, RAM_CRITICAL_THRESHOLD}
DiskSamples == {null, DISK_WARNING_THRESHOLD - 1, DISK_WARNING_THRESHOLD, DISK_CRITICAL_THRESHOLD}

\* Lines 130-137: RAM.
StatusAfterRam(ram) ==
    IF ram >= RAM_CRITICAL_THRESHOLD THEN "critical"
    ELSE IF ram >= RAM_WARNING_THRESHOLD THEN "warning"
    ELSE "healthy"

WarningsAfterRam(ram) ==
    IF ram >= RAM_CRITICAL_THRESHOLD THEN << "RAM critically low" >>
    ELSE IF ram >= RAM_WARNING_THRESHOLD THEN << "RAM usage high" >>
    ELSE << >>

\* Lines 139-146: CPU.
StatusAfterCpuLowers(status, cpuUsage) ==
    IF cpuUsage >= CPU_CRITICAL_THRESHOLD THEN "critical"
    ELSE IF cpuUsage >= CPU_WARNING_THRESHOLD THEN "warning"
    ELSE status
StatusAfterCpu(status, cpuUsage) ==
    IF cpuUsage >= CPU_CRITICAL_THRESHOLD THEN "critical"
    ELSE IF cpuUsage >= CPU_WARNING_THRESHOLD
         THEN (IF status = "critical" THEN "critical" ELSE "warning")
    ELSE status

WarningsAfterCpuFirst(warnings, cpuUsage) ==
    IF cpuUsage >= CPU_CRITICAL_THRESHOLD THEN << "CPU critically high" >> \o warnings
    ELSE IF cpuUsage >= CPU_WARNING_THRESHOLD THEN << "CPU usage high" >> \o warnings
    ELSE warnings
WarningsAfterCpu(warnings, cpuUsage) ==
    IF cpuUsage >= CPU_CRITICAL_THRESHOLD THEN Append(warnings, "CPU critically high")
    ELSE IF cpuUsage >= CPU_WARNING_THRESHOLD THEN Append(warnings, "CPU usage high")
    ELSE warnings

\* Lines 148-157: disk, if available.
StatusAfterDiskUnguarded(status, disk) ==
    IF disk = null THEN "error"
    ELSE IF disk >= DISK_CRITICAL_THRESHOLD THEN "critical"
    ELSE IF disk >= DISK_WARNING_THRESHOLD
         THEN (IF status = "critical" THEN "critical" ELSE "warning")
    ELSE status

StatusAfterDisk(status, disk) ==
    IF disk = null THEN status
    ELSE IF disk >= DISK_CRITICAL_THRESHOLD THEN "critical"
    ELSE IF disk >= DISK_WARNING_THRESHOLD
         THEN (IF status = "critical" THEN "critical" ELSE "warning")
    ELSE status

WarningsAfterDisk(warnings, disk) ==
    IF disk = null THEN warnings
    ELSE IF disk >= DISK_CRITICAL_THRESHOLD THEN Append(warnings, "Disk storage critically low")
    ELSE IF disk >= DISK_WARNING_THRESHOLD THEN Append(warnings, "Disk storage low")
    ELSE warnings

SystemStatus(cpuUsage, ram, disk) ==
    StatusAfterDisk(StatusAfterCpu(StatusAfterRam(ram), cpuUsage), disk)

SystemWarnings(cpuUsage, ram, disk) ==
    WarningsAfterDisk(WarningsAfterCpu(WarningsAfterRam(ram), cpuUsage), disk)

\* Line 159: warningMessage = warnings.length > 0 ? warnings.join('; ') : null
WarningMessage(warnings) ==
    IF Len(warnings) > 0 THEN [isNull |-> FALSE, parts |-> warnings]
    ELSE [isNull |-> TRUE, parts |-> << >>]

\* Line 163: statusChanged = !lastStatus || lastStatus.status !== status
StatusChanged(lastStatus, status) == lastStatus = "none" \/ lastStatus # status

\* Line 168: the alert condition.
ShouldAlertAlways(statusChanged, status) == status # "healthy"
ShouldAlert(statusChanged, status) == statusChanged /\ status # "healthy"

\* Line 194: the recovery condition.
ShouldRecoverNoPrior(statusChanged, status, lastStatus) ==
    statusChanged /\ status = "healthy"
ShouldRecover(statusChanged, status, lastStatus) ==
    /\ statusChanged
    /\ status = "healthy"
    /\ lastStatus # "none"
    /\ lastStatus # "healthy"

\* scheduler.js line 29: the continuation of the bootstrap pass arms the
\* 2-second timer; any other caller does nothing with the result.
HealthReturned(c) ==
    IF monitor.bootstrap = c
    THEN monitor' = [monitor EXCEPT !.grace = "armed"]
    ELSE UNCHANGED monitor

\* Lines 237-240: the catch of checkSystemHealth: whatever was thrown in the
\* body, the call returns { status: 'error' }.
HealthErrorStores(c, rec) ==
    /\ health' = [health EXCEPT ![c] = [rec EXCEPT !.pc = "done", !.result = "error"]]
    /\ HealthReturned(c)
    /\ system_metrics' = insertSystemMetric(rec.status, rec.disk, c)
HealthError(c, rec) ==
    /\ health' = [health EXCEPT ![c] = [rec EXCEPT !.pc = "done", !.result = "error"]]
    /\ HealthReturned(c)
    /\ UNCHANGED system_metrics

\* Lines 210-235: the sample is stored and the result returned.
HealthStore(c, rec) ==
    \E throws \in StoreThrows :
        IF throws
        THEN HealthError(c, [rec EXCEPT !.storeFailed = TRUE])
        ELSE /\ system_metrics' = insertSystemMetric(rec.status, rec.disk, c)
             /\ health' = [health EXCEPT ![c] = [rec EXCEPT !.pc = "done",
                                                            !.result = rec.status,
                                                            !.ev = Append(@, "insert")]]
             /\ HealthReturned(c)

\* Lines 193-208: the recovery notification, awaited.  box is the notifier's
\* log as the cycle has left it so far.
HealthRecovery(c, rec, box) ==
    IF ShouldRecover(StatusChanged(rec.lastStatus, rec.status), rec.status, rec.lastStatus)
    THEN /\ sent' = Append(box, Message("SYSTEM RECOVERY", "health", c))
         /\ health' = [health EXCEPT ![c] = [rec EXCEPT !.pc = "recovery",
                                                        !.ev = Append(@, "send")]]
         /\ UNCHANGED << system_metrics, monitor >>
    ELSE /\ HealthStore(c, rec)
         /\ sent' = box

\* Lines 109-118: the call itself, up to the await of getDiskUsage().
checkSystemHealth ==
    \E cur \in env.cpu, ram \in env.ram :
        /\ getCpuUsage(cur)
        /\ health' = Append(health,
               [pc |-> "disk", reading |-> cpuReads + 1, times |-> cur,
                cpuUsage |-> CpuPercentage(previousCpuInfo, cur), ram |-> ram,
                disk |-> null, status |-> "none", lastStatus |-> "unread",
                result |-> "pending", storeFailed |-> FALSE, ev |-> << >>])

\* Lines 118-191: getDiskUsage() has settled, with the Use% column of df or
\* with undefined (null) where df failed or printed fewer than five fields.
\* The query of line 162 may throw, which the catch of line 237 turns into
\* the error result.
DiskUsageReturns(c) ==
    /\ health[c].pc = "disk"
    /\ \E disk \in env.disk :
         IF health[c].cpuUsage = null
         THEN /\ health' = [health EXCEPT ![c].pc = "done", ![c].result = "initializing"]
              /\ HealthReturned(c)
              /\ UNCHANGED << system_metrics, sent >>
         ELSE \E lastStatus \in getLastSystemStatus, throws \in StoreThrows :
              LET status == SystemStatus(health[c].cpuUsage, health[c].ram, disk)
                  rec == [health[c] EXCEPT
                             !.disk = disk,
                             !.status = status,
                             !.lastStatus = lastStatus,
                             !.ev = Append(@, "read")]
              IN IF throws
                 THEN /\ HealthError(c, [health[c] EXCEPT !.disk = disk, !.status = status])
                      /\ UNCHANGED sent
                 ELSE IF ShouldAlert(StatusChanged(lastStatus, status), status)
                 THEN /\ sent' = Append(sent, Message("SYSTEM ALERT", "health", c))
                      /\ health' = [health EXCEPT ![c] = [rec EXCEPT !.pc = "alert",
                                                                     !.ev = Append(@, "send")]]
                      /\ UNCHANGED << system_metrics, monitor >>
                 ELSE HealthRecovery(c, rec, sent)
    /\ UNCHANGED << now, cpuVars, metricsCalls, testVars, taskVars, reports, hostVars, calls, ticks >>

\* Line 189: the awaited sendToAllUsers(alertMessage) has settled.
AlertDelivered(c) ==
    /\ health[c].pc = "alert"
    /\ \E outcomes \in env.delivery :
         LET box == [sent EXCEPT ![PendingMessage("health", c)].delivery = outcomes]
         IN IF SendToAllUsersSettles(outcomes) = "rejected"
            THEN /\ HealthError(c, health[c])
                 /\ sent' = box
            ELSE HealthRecovery(c, health[c], box)
    /\ UNCHANGED << now, cpuVars, metricsCalls, testVars, taskVars, reports, hostVars, calls, ticks >>

\* Line 204: the awaited sendToAllUsers(msg) has settled.
RecoveryDelivered(c) ==
    /\ health[c].pc = "recovery"
    /\ \E outcomes \in env.delivery :
         /\ sent' = [sent EXCEPT ![PendingMessage("health", c)].delivery = outcomes]
         /\ IF SendToAllUsersSettles(outcomes) = "rejected"
            THEN HealthError(c, health[c])
            ELSE HealthStore(c, health[c])
    /\ UNCHANGED << now, cpuVars, metricsCalls, testVars, taskVars, reports, hostVars, calls, ticks >>

\* Lines 243-254: getSystemMetrics() reads the CPU as well.
getSystemMetrics ==
    \E cur \in env.cpu :
        /\ getCpuUsage(cur)
        /\ metricsCalls' = Append(metricsCalls,
               [reading |-> cpuReads + 1, times |-> cur,
                cpu |-> CpuPercentage(previousCpuInfo, cur)])

-----------------------------------------------------------------------------
(***************************************************************************)
(* tests.js: runHttpTest, runTcpTest, runAllTests.                         *)
(***************************************************************************)
\* The status codes a response may carry (the two sides of the line 60 test).
HttpCodes == {399, 400}

\* The test configurations of one cycle: the HTTP tests, then the TCP tests.
AllTests ==
    [i \in 1..Len(HttpTests) |-> [type |-> "http", name |-> HttpTests[i].name,
                                  target |-> HttpTests[i].target]]
    \o
    [i \in 1..Len(env.tcpTests) |-> [type |-> "tcp", name |-> env.tcpTests[i].name,
                                     target |-> env.tcpTests[i].target]]

\* runTcpTest line 155: socket.connect(parseInt(port), host, ...) throws where
\* parseInt(port) is no port number (NaN for an address without a colon),
\* which rejects the promise under construction.
ConnectThrows(cfg) == cfg.type = "tcp" /\ cfg.target.port \notin 0..65535

\* A probe as it stands once the call has set its timer and issued the fetch
\* (runHttpTest lines 39-55) or the connect (runTcpTest lines 121-155).  A
\* call whose connect throws has armed its timer (line 131) and is settled,
\* as rejected, with no handler on the socket.
NewProbeNoTimer(cfg, run) ==
    [type |-> cfg.type, name |-> cfg.name, target |-> cfg.target, run |-> run,
     pc |-> IF ConnectThrows(cfg) THEN "done" ELSE "pending",
     rejected |-> ConnectThrows(cfg),
     timer |-> FALSE, aborted |-> FALSE,
     socket |-> IF cfg.type = "tcp" /\ ~ConnectThrows(cfg) THEN "connecting" ELSE "none",
     code |-> null, status |-> "none", errorMessage |-> << >>, lastResult |-> "unread",
     isRecovery |-> FALSE, inserts |-> 0, storeFailed |-> FALSE, ev |-> << >>,
     handled |-> << >>]

NewProbe(cfg, run) ==
    [type |-> cfg.type, name |-> cfg.name, target |-> cfg.target, run |-> run,
     pc |-> IF ConnectThrows(cfg) THEN "done" ELSE "pending",
     rejected |-> ConnectThrows(cfg),
     timer |-> TRUE, aborted |-> FALSE,
     socket |-> IF cfg.type = "tcp" /\ ~ConnectThrows(cfg) THEN "connecting" ELSE "none",
     code |-> null, status |-> "none", errorMessage |-> << >>, lastResult |-> "unread",
     isRecovery |-> FALSE, inserts |-> 0, storeFailed |-> FALSE, ev |-> << >>,
     handled |-> << >>]

\* clearTimeout(timer): the timer is armed no more.
ClearTimeoutKeeps(timer) == timer
ClearTimeout(timer) == FALSE

\* Line 60: status = response.status < 400 ? 'success' : 'failed'
HttpStatusUpTo400(code) == IF code <= 400 THEN "success" ELSE "failed"
HttpStatus(code) == IF code < 400 THEN "success" ELSE "failed"

\* Line 61: errorMessage = status === 'failed' ? `HTTP ${response.status}` : null
HttpErrorMessage(code) == IF HttpStatus(code) = "failed" THEN << "HTTP", code >> ELSE << >>

\* Lines 65 and 163: isRecovery = lastResult && lastResult.status === 'failed'
IsRecovery(lastResult) == lastResult # "none" /\ lastResult = "failed"

\* The order in which a handler of runHttpTest (lines 64-83, 100-115) or of
\* runTcpTest (lines 135-149, 162-178, 187-201) reads the last result, inserts
\* the new one and, if it alerts, calls sendToAllUsers.
ProbeEffectsSendFirst(alert) ==
    << "read" >> \o (IF alert THEN << "send" >> ELSE << >>) \o << "insert" >>
ProbeEffects(alert) ==
    << "read", "insert" >> \o (IF alert THEN << "send" >> ELSE << >>)

\* Lines 92-98: the error message of the catch block.
FetchErrors == {"AbortError", "TypeError", "Error"}
CatchErrorMessage(error) ==
    IF error = "AbortError" THEN << "Request timeout" >>
    ELSE IF error = "TypeError" THEN << "Network error - cannot reach server" >>
    ELSE IF error = "SqliteError" THEN << "SqliteError" >>
    ELSE << "Unknown error" >>

\* scheduler.js lines 14-22: the continuation of the initial cycle schedules
\* the periodic tests; any other caller does nothing with the results.
RunReturned(r) ==
    IF monitor.initial = r
    THEN testInterval' = "scheduled"
    ELSE UNCHANGED testInterval

\* The probe p settles as rec (a resolve after the promise has settled does
\* nothing).  A cycle awaiting it (runAllTests lines 238-253) pushes the result
\* and goes on with the next test, or returns.  Where the connect of the next
\* test throws, its promise is rejected at once and the cycle rejects with it
\* (lines 240, 248: no try), unhandled by the scheduler.
ProbeSettles(p, rec) ==
    LET r == rec.run
        settled == [probes EXCEPT ![p] = [rec EXCEPT !.pc = "done"]]
    IN IF r = 0 \/ probes[p].pc = "done"
       THEN /\ probes' = settled
            /\ UNCHANGED << runs, testInterval, process >>
       ELSE LET results == Append(runs[r].results,
                                  [type |-> rec.type, status |-> rec.status, name |-> rec.name])
            IN IF runs[r].next <= Len(AllTests)
               THEN LET following == NewProbe(AllTests[runs[r].next], r)
                    IN /\ probes' = Append(settled, following)
                       /\ runs' = [runs EXCEPT ![r].results = results,
                                               ![r].next = @ + 1,
                                               ![r].done = following.rejected,
                                               ![r].rejected = following.rejected]
                       /\ process' = IF following.rejected THEN "crashed" ELSE process
                       /\ UNCHANGED testInterval
               ELSE /\ probes' = settled
                    /\ runs' = [runs EXCEPT ![r].results = results, ![r].done = TRUE]
                    /\ RunReturned(r)
                    /\ UNCHANGED process

\* The promise of the probe p rejects, as rec.  A cycle awaiting it (lines
\* 240, 248: no try) rejects with it; the scheduler calls runAllTests with no
\* rejection handler (scheduler.js lines 14 and 20), so that the rejection is
\* unhandled and ends the process, and the continuation of line 14 never runs.
ProbeRejects(p, rec) ==
    LET r == rec.run
    IN /\ probes' = [probes EXCEPT ![p] = [rec EXCEPT !.pc = "done", !.rejected = TRUE]]
       /\ UNCHANGED testInterval
       /\ IF r = 0
          THEN UNCHANGED << runs, process >>
          ELSE /\ runs' = [runs EXCEPT ![r].done = TRUE, ![r].rejected = TRUE]
               /\ process' = "crashed"

\* A timer or socket callback of the probe p throws: the exception is
\* uncaught and ends the process; the promise is left as it was.
ProbeCrashes(p, rec) ==
    /\ probes' = [probes EXCEPT ![p] = rec]
    /\ process' = "crashed"
    /\ UNCHANGED << runs, testInterval >>

probeFrame == << now, system_metrics, sent >>
otherFrame == << previousCpuInfo, cpuReads, health, metricsCalls, systemMonitorInterval,
                 dailyReportTask, monitor, reports, confVars, calls, ticks >>

\* runHttpTest line 47: the abort timer fires (it is cleared on a response
\* only, line 57): controller.abort().
HttpAbortTimer(p) ==
    /\ probes[p].type = "http"
    /\ probes[p].timer
    /\ env.timeouts \/ probes[p].pc = "done"
    /\ probes' = [probes EXCEPT ![p].timer = FALSE,
                                ![p].aborted = (probes[p].pc = "pending")]
    /\ UNCHANGED << now, storeVars, sent, runs, testInterval, process, otherFrame >>

\* runHttpTest lines 88-118: the catch block, entered with error from the
\* probe as it stands in base.  An insert that throws here leaves the function
\* as a rejection, before the alert of line 115.
HttpCatch(p, error, base) ==
    \E lastResult \in getLastTestResult(base.target, "http"), throws \in StoreThrows :
        LET rec == [base EXCEPT
                       !.status = "failed",
                       !.errorMessage = CatchErrorMessage(error),
                       !.lastResult = lastResult,
                       !.isRecovery = FALSE]
        IN IF throws
           THEN /\ ProbeRejects(p, [rec EXCEPT !.storeFailed = TRUE,
                                               !.ev = Append(@, "read")])
                /\ UNCHANGED << tests, sent >>
           ELSE /\ tests' = insertTestResult("http", rec.name, rec.target, "failed",
                                             rec.errorMessage, FALSE, p)
                /\ sent' = Append(sent, Message("HTTP TEST FAILED", "probe", p))
                /\ ProbeSettles(p, [rec EXCEPT !.inserts = @ + 1,
                                               !.ev = @ \o ProbeEffects(TRUE)])

\* runHttpTest lines 57-86: fetch has resolved with a response.  An insert
\* that throws (line 68) is caught by the catch of line 88.
HttpResponse(p) ==
    /\ probes[p].type = "http"
    /\ probes[p].pc = "pending"
    /\ ~probes[p].aborted
    /\ \E code \in env.codes, lastResult \in getLastTestResult(probes[p].target, "http"),
          throws \in StoreThrows :
         LET status == HttpStatus(code)
             isRecovery == IsRecovery(lastResult)
             alert == status = "failed" \/ isRecovery
             rec == [probes[p] EXCEPT
                        !.timer = ClearTimeout(@),
                        !.code = code,
                        !.status = status,
                        !.errorMessage = HttpErrorMessage(code),
                        !.lastResult = lastResult,
                        !.isRecovery = isRecovery,
                        !.inserts = @ + 1,
                        !.ev = @ \o ProbeEffects(alert)]
         IN IF throws
            THEN HttpCatch(p, "SqliteError",
                           [probes[p] EXCEPT !.timer = ClearTimeout(@),
                                             !.storeFailed = TRUE,
                                             !.ev = Append(@, "read")])
            ELSE /\ tests' = insertTestResult("http", rec.name, rec.target, status,
                                              rec.errorMessage, isRecovery, p)
                 /\ sent' = IF alert
                            THEN Append(sent, Message(IF isRecovery THEN "RECOVERY"
                                                      ELSE "HTTP TEST FAILED", "probe", p))
                            ELSE sent
                 /\ ProbeSettles(p, rec)
    /\ UNCHANGED << now, system_metrics, otherFrame >>

\* runHttpTest lines 88-118: fetch has rejected (aborted by the timer, or a
\* network error).
HttpFetchRejects(p) ==
    /\ probes[p].type = "http"
    /\ probes[p].pc = "pending"
    /\ \E error \in env.errors \cup {"AbortError"} :
         /\ (error = "AbortError") = probes[p].aborted
         /\ HttpCatch(p, error, probes[p])
    /\ UNCHANGED << now, system_metrics, otherFrame >>

\* A callback of runTcpTest from its read of the last result on: the insert,
\* the alert if there is one, and the resolve.  The callbacks have no try: an
\* insert that throws leaves the callback before the alert and the resolve.
TcpHandler(p, base, status, errorMessage, isRecovery, alert, kind) ==
    \E throws \in StoreThrows :
        IF throws
        THEN /\ ProbeCrashes(p, [base EXCEPT !.status = status,
                                              !.errorMessage = errorMessage,
                                              !.storeFailed = TRUE,
                                              !.ev = Append(@, "read")])
             /\ UNCHANGED << tests, sent >>
        ELSE LET rec == [base EXCEPT
                            !.status = status,
                            !.errorMessage = errorMessage,
                            !.isRecovery = isRecovery,
                            !.inserts = @ + 1,
                            !.ev = @ \o ProbeEffects(alert)]
             IN /\ tests' = insertTestResult("tcp", rec.name, rec.target, status,
                                             errorMessage, isRecovery, p)
                /\ sent' = IF alert THEN Append(sent, Message(kind, "probe", p)) ELSE sent
                /\ ProbeSettles(p, rec)

\* runTcpTest lines 131-151: the deadline timer fires.
TcpTimeout(p) ==
    /\ probes[p].type = "tcp"
    /\ probes[p].timer
    /\ env.timeouts
    /\ \E lastResult \in getLastTestResult(probes[p].target, "tcp") :
         TcpHandler(p, [probes[p] EXCEPT !.timer = FALSE,
                                         !.socket = "destroyed",
                                         !.handled = Append(@, "timer"),
                                         !.lastResult = lastResult],
                    "failed", << "Connection timeout" >>, FALSE, TRUE, "TCP TEST FAILED")
    /\ UNCHANGED << now, system_metrics, otherFrame >>

\* runTcpTest lines 155-181: the connection is established.
TcpConnect(p) ==
    /\ probes[p].type = "tcp"
    /\ probes[p].socket = "connecting"
    /\ "connect" \in env.tcp
    /\ \E lastResult \in getLastTestResult(probes[p].target, "tcp") :
         TcpHandler(p, [probes[p] EXCEPT !.timer = ClearTimeout(@),
                                         !.socket = "destroyed",
                                         !.handled = Append(@, "connect"),
                                         !.lastResult = lastResult],
                    "success", << >>, IsRecovery(lastResult), IsRecovery(lastResult),
                    "TCP RECOVERY")
    /\ UNCHANGED << now, system_metrics, otherFrame >>

\* runTcpTest lines 183-203: the socket reports an error (and is closed by it).
TcpError(p) ==
    /\ probes[p].type = "tcp"
    /\ probes[p].socket = "connecting"
    /\ "error" \in env.tcp
    /\ \E lastResult \in getLastTestResult(probes[p].target, "tcp") :
         TcpHandler(p, [probes[p] EXCEPT !.timer = ClearTimeout(@),
                                         !.socket = "destroyed",
                                         !.handled = Append(@, "error"),
                                         !.lastResult = lastResult],
                    "failed", << "socket error" >>, FALSE, TRUE, "TCP TEST FAILED")
    /\ UNCHANGED << now, system_metrics, otherFrame >>

\* runAllTests lines 207-240: the call, up to the await of the first probe.
runAllTests ==
    IF Len(AllTests) = 0
    THEN /\ runs' = Append(runs, [next |-> 1, results |-> << >>, done |-> TRUE,
                                   rejected |-> FALSE])
         /\ UNCHANGED probes
    ELSE /\ runs' = Append(runs, [next |-> 2, results |-> << >>, done |-> FALSE,
                                   rejected |-> FALSE])
         /\ probes' = Append(probes, NewProbe(AllTests[1], Len(runs) + 1))

-----------------------------------------------------------------------------
(***************************************************************************)
(* The clock and the direct calls.                                         *)
(***************************************************************************)
Tick ==
    /\ Running
    /\ now < MaxTime
    /\ now' = now + 1
    /\ UNCHANGED << storeVars, sent, cpuVars, health, metricsCalls, probes, runs,
                    schedVars, hostVars, calls, ticks >>

CallCheckSystemHealth ==
    /\ Running
    /\ calls < MaxCalls
    /\ calls' = calls + 1
    /\ checkSystemHealth
    /\ UNCHANGED << now, storeVars, sent, metricsCalls, probes, runs, schedVars, hostVars, ticks >>

CallGetSystemMetrics ==
    /\ Running
    /\ calls < MaxCalls
    /\ calls' = calls + 1
    /\ getSystemMetrics
    /\ UNCHANGED << now, storeVars, sent, health, probes, runs, schedVars, hostVars, ticks >>

-----------------------------------------------------------------------------
(***************************************************************************)
(* reports.js: generateDailyReport, as far as it touches the notifier and  *)
(* the store.                                                              *)
(***************************************************************************)
\* The promise of the report r rejects, as rec.  The daily task calls
\* generateDailyReport() with neither await nor catch (scheduler.js line 47),
\* so that the rejection is unhandled and ends the process.
ReportRejects(r, rec) ==
    /\ reports' = [reports EXCEPT ![r] = [rec EXCEPT !.pc = "rejected"]]
    /\ process' = "crashed"

\* Lines 53-66 and 119: the call.  The three queries of lines 57-59 may throw,
\* which rejects the call at once.  With no test row of today the "no data"
\* message is sent and awaited; otherwise the chart is awaited first.
generateDailyReport ==
    \E throws \in StoreThrows :
        IF throws
        THEN /\ reports' = Append(reports, [pc |-> "rejected", chart |-> FALSE,
                                            saved |-> FALSE])
             /\ process' = "crashed"
             /\ UNCHANGED sent
        ELSE /\ UNCHANGED process
             /\ IF tests = << >>
                THEN /\ reports' = Append(reports, [pc |-> "nodata", chart |-> FALSE,
                                                    saved |-> FALSE])
                     /\ sent' = Append(sent, Message("DAILY REPORT", "report",
                                                     Len(reports) + 1))
                ELSE /\ reports' = Append(reports, [pc |-> "chart", chart |-> FALSE,
                                                    saved |-> FALSE])
                     /\ UNCHANGED sent

reportFrame == << now, storeVars, cpuVars, health, metricsCalls, probes, runs, taskVars,
                  monitor, confVars, calls, ticks >>

\* Lines 119-122: createDailyChart has returned a path or null; the text
\* report is sent.
ReportChartDone(r) ==
    /\ reports[r].pc = "chart"
    /\ \E chart \in BOOLEAN :
         reports' = [reports EXCEPT ![r].pc = "text", ![r].chart = chart]
    /\ sent' = Append(sent, Message("DAILY REPORT", "report", r))
    /\ UNCHANGED << process, reportFrame >>

\* Lines 133-143: the summary is saved with insertSummary.run, which may
\* throw, and the call returns.
ReportSave(r) ==
    \E throws \in StoreThrows :
        IF throws
        THEN ReportRejects(r, reports[r])
        ELSE /\ reports' = [reports EXCEPT ![r].pc = "done", ![r].saved = TRUE]
             /\ UNCHANGED process

\* Lines 63-66 and 122-143: the text has been delivered.  The "no data"
\* report returns; otherwise the chart image follows if there is one, then
\* the summary is saved.
ReportDelivered(r) ==
    /\ reports[r].pc \in {"nodata", "text"}
    /\ IF reports[r].pc = "nodata"
       THEN /\ reports' = [reports EXCEPT ![r].pc = "done"]
            /\ UNCHANGED process
       ELSE IF reports[r].chart
       THEN /\ reports' = [reports EXCEPT ![r].pc = "photo"]
            /\ UNCHANGED process
       ELSE ReportSave(r)
    /\ UNCHANGED << sent, reportFrame >>

\* Lines 125-143: the chart image has been delivered; the summary is saved.
ReportPhotoDelivered(r) ==
    /\ reports[r].pc = "photo"
    /\ ReportSave(r)
    /\ UNCHANGED << sent, reportFrame >>

-----------------------------------------------------------------------------
(***************************************************************************)
(* scheduler.js.  A cron task is "undefined" (the variable is not set),    *)
(* "scheduled" or "stopped".                                               *)
(***************************************************************************)
\* Lines 54-62: if (task) task.stop()
StopTaskToggle(task) ==
    IF task = "scheduled" THEN "stopped"
    ELSE IF task = "stopped" THEN "scheduled"
    ELSE task
StopTask(task) == IF task # "undefined" THEN "stopped" ELSE task

\* Lines 10-51.
\* Lines 14-22: cron.schedule for the tests is called in the continuation of
\* the initial cycle, so not before that cycle has completed (which it has at
\* once where there is no test to await).
TestTaskAtOnce(task) == "scheduled"
TestTaskAfterInitialCycle(task) == IF Len(AllTests) = 0 THEN "scheduled" ELSE task

startMonitoring ==
    /\ Running
    /\ ~monitor.started
    /\ runAllTests
    /\ testInterval' = TestTaskAfterInitialCycle(testInterval)
    /\ checkSystemHealth
    /\ dailyReportTask' = "scheduled"
    /\ monitor' = [monitor EXCEPT !.started = TRUE,
                                  !.initial = Len(runs) + 1,
                                  !.bootstrap = Len(health) + 1]
    /\ UNCHANGED << now, storeVars, sent, metricsCalls, systemMonitorInterval, reports,
                    hostVars, calls, ticks >>

\* Lines 53-64.
stopMonitoring ==
    /\ Running
    /\ monitor.stops < MaxStops
    /\ testInterval' = StopTask(testInterval)
    /\ systemMonitorInterval' = StopTask(systemMonitorInterval)
    /\ dailyReportTask' = StopTask(dailyReportTask)
    /\ monitor' = [monitor EXCEPT !.stops = @ + 1, !.halted = @ \/ monitor.started]
    /\ UNCHANGED << now, storeVars, sent, cpuVars, health, metricsCalls, probes, runs,
                    reports, hostVars, calls, ticks >>

\* Lines 31-40: the 2-second timer fires: the first real check, and the
\* periodic checks are scheduled.
GraceTimer ==
    /\ Running
    /\ monitor.grace = "armed"
    /\ monitor' = [monitor EXCEPT !.grace = "fired"]
    /\ checkSystemHealth
    /\ systemMonitorInterval' = "scheduled"
    /\ UNCHANGED << now, storeVars, sent, metricsCalls, probes, runs, testInterval,
                    dailyReportTask, reports, hostVars, calls, ticks >>

\* Lines 16-21: the periodic test task fires.
TestCron ==
    /\ Running
    /\ testInterval = "scheduled"
    /\ ticks < MaxTicks
    /\ ticks' = ticks + 1
    /\ runAllTests
    /\ UNCHANGED << now, storeVars, sent, cpuVars, health, metricsCalls, schedVars, hostVars, calls >>

\* Lines 34-39: the periodic system check fires.
SystemCron ==
    /\ Running
    /\ systemMonitorInterval = "scheduled"
    /\ ticks < MaxTicks
    /\ ticks' = ticks + 1
    /\ checkSystemHealth
    /\ UNCHANGED << now, storeVars, sent, metricsCalls, probes, runs, schedVars, hostVars, calls >>

\* Lines 45-48: the daily report task fires.
ReportCron ==
    /\ Running
    /\ dailyReportTask = "scheduled"
    /\ ticks < MaxTicks
    /\ ticks' = ticks + 1
    /\ generateDailyReport
    /\ UNCHANGED << now, storeVars, cpuVars, health, metricsCalls, probes, runs, taskVars,
                    monitor, confVars, calls >>

InitProgram ==
    /\ now = 0
    /\ tests = << >>
    /\ system_metrics = << >>
    /\ sent = << >>
    /\ previousCpuInfo = NoCpuInfo
    /\ cpuReads = 0
    /\ health = << >>
    /\ metricsCalls = << >>
    /\ probes = << >>
    /\ runs = << >>
    /\ testInterval = "undefined"
    /\ systemMonitorInterval = "undefined"
    /\ dailyReportTask = "undefined"
    /\ monitor = [started |-> FALSE, stops |-> 0, bootstrap |-> 0, initial |-> 0,
                  halted |-> FALSE, grace |-> "none"]
    /\ reports = << >>
    /\ process = "running"
    /\ broadcasts = << >>
    /\ daily = [setting |-> null, task |-> "undefined",
                expression |-> [minute |-> null, hour |-> null],
                day |-> 0, hour |-> 0, minute |-> 0, fired |-> << >>]
    /\ testConfig = [resolved |-> FALSE, http |-> [set |-> FALSE, text |-> << >>],
                     tcp |-> [set |-> FALSE, text |-> << >>],
                     httpTests |-> << >>, tcpTests |-> << >>]
    /\ connects = << >>
    /\ usageCalls = << >>
    /\ calls = 0
    /\ ticks = 0

\* The exported operations are called on a host whose readings vary freely and
\* against peers that may answer, refuse or stay silent.
Init ==
    /\ InitProgram
    /\ env = [cpu |-> CpuReadings, ram |-> RamSamples, disk |-> DiskSamples,
              codes |-> HttpCodes, errors |-> FetchErrors \ {"AbortError"},
              tcp |-> {"connect", "error"}, timeouts |-> TRUE,
              storeFaults |-> FALSE, delivery |-> {<< "ok" >>},
              tcpTests |-> TcpTests]

\* The scheduler runs on a host under steady critical load (the tick counters
\* stand still, the memory is full, df gives nothing) against peers that answer
\* in time: the HTTP server with an error status, the TCP service by accepting.
InitSched ==
    /\ InitProgram
    /\ env = [cpu |-> {[idle |-> 0, total |-> 0]}, ram |-> {RAM_CRITICAL_THRESHOLD},
              disk |-> {null},
              codes |-> {400}, errors |-> {},
              tcp |-> {"connect"}, timeouts |-> FALSE,
              storeFaults |-> FALSE, delivery |-> {<< "ok" >>},
              tcpTests |-> TcpTests]

\* runHttpTest(testConfig) and runTcpTest(testConfig), called directly.
CallRunHttpTest ==
    /\ Running
    /\ calls < MaxCalls
    /\ calls' = calls + 1
    /\ \E i \in DOMAIN HttpTests :
         probes' = Append(probes, NewProbe([type |-> "http", name |-> HttpTests[i].name,
                                            target |-> HttpTests[i].target], 0))
    /\ UNCHANGED << now, storeVars, sent, cpuVars, health, metricsCalls, runs, schedVars, hostVars, ticks >>

CallRunTcpTest ==
    /\ Running
    /\ calls < MaxCalls
    /\ calls' = calls + 1
    /\ \E cfg \in TcpConfigs :
         probes' = Append(probes, NewProbe([type |-> "tcp", name |-> cfg.name,
                                            target |-> cfg.target], 0))
    /\ UNCHANGED << now, storeVars, sent, cpuVars, health, metricsCalls, runs, schedVars, hostVars, ticks >>

ProbeSteps ==
    /\ Running
    /\ \E p \in DOMAIN probes :
            \/ HttpAbortTimer(p)
            \/ HttpResponse(p)
            \/ HttpFetchRejects(p)
            \/ TcpTimeout(p)
            \/ TcpConnect(p)
            \/ TcpError(p)

HealthSteps ==
    /\ Running
    /\ \E c \in DOMAIN health :
            \/ DiskUsageReturns(c)
            \/ AlertDelivered(c)
            \/ RecoveryDelivered(c)

Next ==
    \/ Tick
    \/ CallCheckSystemHealth
    \/ CallGetSystemMetrics
    \/ CallRunHttpTest
    \/ CallRunTcpTest
    \/ HealthSteps
    \/ ProbeSteps

Spec == Init /\ [][Next]_vars

ReportSteps ==
    /\ Running
    /\ \E r \in DOMAIN reports :
            \/ ReportChartDone(r)
            \/ ReportDelivered(r)
            \/ ReportPhotoDelivered(r)

NextSched ==
    \/ Tick
    \/ startMonitoring
    \/ stopMonitoring
    \/ GraceTimer
    \/ TestCron
    \/ SystemCron
    \/ ReportCron
    \/ HealthSteps
    \/ ProbeSteps
    \/ ReportSteps

SpecSched == InitSched /\ [][NextSched]_vars

\* The scheduler on the same steady host with a store that may refuse an
\* insert or a query.
InitSchedFault ==
    /\ InitProgram
    /\ env = [cpu |-> {[idle |-> 0, total |-> 0]}, ram |-> {RAM_CRITICAL_THRESHOLD},
              disk |-> {null},
              codes |-> {400}, errors |-> {},
              tcp |-> {"connect"}, timeouts |-> FALSE,
              storeFaults |-> TRUE, delivery |-> {<< "ok" >>},
              tcpTests |-> TcpTests]

SpecSchedFault == InitSchedFault /\ [][NextSched]_vars

\* The scheduler on the steady host where TCP_HOSTS may name a host without
\* a port before the other TCP target.
InitSchedPortless ==
    /\ InitProgram
    /\ \E tcpTests \in { TcpTests,
                          << [name |-> "svc", target |-> [host |-> "t1", port |-> null]] >>
                          \o TcpTests } :
         env = [cpu |-> {[idle |-> 0, total |-> 0]}, ram |-> {RAM_CRITICAL_THRESHOLD},
                disk |-> {null},
                codes |-> {400}, errors |-> {},
                tcp |-> {"connect"}, timeouts |-> FALSE,
                storeFaults |-> FALSE, delivery |-> {<< "ok" >>},
                tcpTests |-> tcpTests]

SpecSchedPortless == InitSchedPortless /\ [][NextSched]_vars

-----------------------------------------------------------------------------
(***************************************************************************)
(* The exported operations on a host whose store may refuse an insert and  *)
(* whose notifications may fail for some or all of two recipients.         *)
(***************************************************************************)
\* tests.js lines 83, 115, 149, 177, 201: the sendToAllUsers a probe has called
\* without awaiting it settles; a rejection would be unhandled.
BroadcastSettles ==
    /\ Running
    /\ \E i \in DOMAIN sent, outcomes \in env.delivery :
         /\ sent[i].op = "probe"
         /\ sent[i].delivery = "pending"
         /\ sent' = [sent EXCEPT ![i].delivery = outcomes]
         /\ process' = IF SendToAllUsersSettles(outcomes) = "rejected"
                       THEN "crashed" ELSE process
    /\ UNCHANGED << now, storeVars, cpuVars, health, metricsCalls, probes, runs, schedVars,
                    confVars, calls, ticks >>

InitFault ==
    /\ InitProgram
    /\ env = [cpu |-> {[idle |-> 0, total |-> 0], [idle |-> 1, total |-> 1]},
              ram |-> {RAM_WARNING_THRESHOLD - 1},
              disk |-> {null, DISK_CRITICAL_THRESHOLD},
              codes |-> HttpCodes, errors |-> {},
              tcp |-> {"connect", "error"}, timeouts |-> TRUE,
              storeFaults |-> TRUE,
              delivery |-> {<< "ok", "ok" >>, << "fail", "ok" >>, << "fail", "fail" >>},
              tcpTests |-> TcpTests]

NextFault ==
    \/ Tick
    \/ CallCheckSystemHealth
    \/ CallGetSystemMetrics
    \/ CallRunHttpTest
    \/ CallRunTcpTest
    \/ HealthSteps
    \/ ProbeSteps
    \/ BroadcastSettles

SpecFault == InitFault /\ [][NextFault]_vars

-----------------------------------------------------------------------------
(***************************************************************************)
(* The probes alone, against peers that may never answer.  The event loop  *)
(* runs a timer that is due (tests.js lines 47, 131), and fetch rejects     *)
(* once its signal has been aborted (line 49); nothing is assumed of the    *)
(* peers.                                                                   *)
(***************************************************************************)
NextProbes ==
    \/ Tick
    \/ CallRunHttpTest
    \/ CallRunTcpTest
    \/ ProbeSteps

TimerFires(p) ==
    /\ Running
    /\ p \in DOMAIN probes
    /\ HttpAbortTimer(p) \/ TcpTimeout(p)

AbortRejects(p) ==
    /\ Running
    /\ p \in DOMAIN probes
    /\ probes[p].aborted
    /\ HttpFetchRejects(p)

SpecProbes ==
    /\ Init
    /\ [][NextProbes]_vars
    /\ \A p \in 1..MaxCalls : WF_vars(TimerFires(p)) /\ WF_vars(AbortRejects(p))

-----------------------------------------------------------------------------
(***************************************************************************)
(* telegram.js: sendToAllUsers, recipient by recipient.  A setting of       *)
(* TELEGRAM_CHAT_IDS is a string, here a sequence of characters; index.js   *)
(* lines 30-34 leave the process where it is empty or unset.                *)
(***************************************************************************)
MaxConfigLen == 4
MaxBroadcasts == 1

Chars == {"1", "2", " ", ","}
ChatIdSettings == UNION { [1..n -> Chars] : n \in 1..MaxConfigLen }

\* str.split(','): the pieces between the commas, empty pieces included.
RECURSIVE Split(_)
Split(str) ==
    IF \A k \in DOMAIN str : str[k] # "," THEN << str >>
    ELSE LET k == CHOOSE i \in DOMAIN str :
                      str[i] = "," /\ \A j \in 1..(i - 1) : str[j] # ","
         IN << SubSeq(str, 1, k - 1) >> \o Split(SubSeq(str, k + 1, Len(str)))

\* id.trim(): the string without its leading and trailing blanks.
RECURSIVE Trim(_)
Trim(str) ==
    IF str # << >> /\ Head(str) = " " THEN Trim(Tail(str))
    ELSE IF str # << >> /\ str[Len(str)] = " " THEN Trim(SubSeq(str, 1, Len(str) - 1))
    ELSE str

\* Line 23: process.env.TELEGRAM_CHAT_IDS.split(',').map(id => id.trim()).
ChatIds(setting) == [k \in DOMAIN Split(setting) |-> Trim(Split(setting)[k])]

notifyFrame == << now, storeVars, sent, cpuVars, health, metricsCalls, probes, runs,
                  schedVars, env, daily, testConfig, connects, usageCalls, process, calls, ticks >>

\* Lines 22-23: a call of sendToAllUsers, up to its loop.
CallSendToAllUsers ==
    /\ Running
    /\ Len(broadcasts) < MaxBroadcasts
    /\ \E setting \in ChatIdSettings :
         broadcasts' = Append(broadcasts,
             [setting |-> setting, chatIds |-> ChatIds(setting), next |-> 1,
              attempts |-> << >>, pc |-> "loop"])
    /\ UNCHANGED notifyFrame

\* Lines 25-30: one turn of the loop: an empty entry is passed over, any other
\* is handed to sendMessage, which is awaited; after the last the call resolves.
SendLoop(b) ==
    /\ broadcasts[b].pc = "loop"
    /\ LET call == broadcasts[b]
       IN IF call.next > Len(call.chatIds)
          THEN broadcasts' = [broadcasts EXCEPT ![b].pc = "resolved"]
          ELSE IF call.chatIds[call.next] = << >>
          THEN broadcasts' = [broadcasts EXCEPT ![b].next = @ + 1]
          ELSE \E outcome \in {"ok", "fail"} :
                 LET tried == Append(call.attempts,
                                     [chatId |-> call.chatIds[call.next], outcome |-> outcome])
                 IN IF SendMessage(outcome) = "rejected"
                    THEN broadcasts' = [broadcasts EXCEPT ![b].attempts = tried,
                                                          ![b].pc = "rejected"]
                    ELSE broadcasts' = [broadcasts EXCEPT ![b].attempts = tried,
                                                          ![b].next = @ + 1]
    /\ UNCHANGED notifyFrame

SendLoopSteps == Running /\ \E b \in DOMAIN broadcasts : SendLoop(b)

NextNotify ==
    \/ CallSendToAllUsers
    \/ SendLoopSteps

SpecNotify == Init /\ [][NextNotify]_vars

-----------------------------------------------------------------------------
(***************************************************************************)
(* tests.js: parseTestConfig and the choice of the targets in runAllTests.  *)
(* A setting is unset, or a string, here a sequence of characters.          *)
(***************************************************************************)
MaxSettingLen == 3

SettingChars == {"a", " ", ",", "|"}
TestSettings ==
    { [set |-> FALSE, text |-> << >>] }
    \cup { [set |-> TRUE, text |-> t] :
             t \in UNION { [1..n -> SettingChars] : n \in 0..MaxSettingLen } }

\* str.split(sep): the pieces between the separators, empty pieces included.
RECURSIVE SplitOn(_, _)
SplitOn(str, sep) ==
    IF \A k \in DOMAIN str : str[k] # sep THEN << str >>
    ELSE LET k == CHOOSE i \in DOMAIN str :
                      str[i] = sep /\ \A j \in 1..(i - 1) : str[j] # sep
         IN << SubSeq(str, 1, k - 1) >> \o SplitOn(SubSeq(str, k + 1, Len(str)), sep)

\* Line 18: configString.split(',').map(item => item.trim()).filter(item => item).
ConfigItems(text) ==
    SelectSeq([k \in DOMAIN SplitOn(text, ",") |-> Trim(SplitOn(text, ",")[k])],
              LAMBDA item : item # << >>)

\* Line 30: target.split('/').pop() || target.split(':')[0] || target.
UnnamedTestName(target) ==
    LET tail == SplitOn(target, "/")[Len(SplitOn(target, "/"))]
        head == SplitOn(target, ":")[1]
    IN IF tail # << >> THEN tail ELSE IF head # << >> THEN head ELSE target

\* Lines 21-33: one item: "Name|target", or a target alone.
ParseItem(item) ==
    LET parts == [k \in DOMAIN SplitOn(item, "|") |-> Trim(SplitOn(item, "|")[k])]
    IN IF Len(parts) = 2
       THEN [name |-> parts[1], target |-> parts[2]]
       ELSE [name |-> UnnamedTestName(parts[1]), target |-> parts[1]]

\* Lines 17-37.
parseTestConfig(text) == [k \in DOMAIN ConfigItems(text) |-> ParseItem(ConfigItems(text)[k])]

\* Lines 216-219 and 227-230: the built-in tests.
DefaultHttpTests ==
    << [name |-> << "Test API" >>, target |-> << "https://httpbin.org/status/200" >>],
       [name |-> << "GitHub API" >>, target |-> << "https://api.github.com" >> ] >>
DefaultTcpTests ==
    << [name |-> << "Google Web" >>, target |-> << "google.com:80" >>],
       [name |-> << "GitHub HTTPS" >>, target |-> << "github.com:443" >>] >>

\* Lines 212-220 and 223-232: if (process.env.X) parse it, else the defaults;
\* an unset variable and the empty string are falsy.
TestsFrom(setting, defaults) ==
    IF setting.set /\ setting.text # << >> THEN parseTestConfig(setting.text) ELSE defaults

\* runAllTests lines 210-232.
ResolveTests ==
    /\ Running
    /\ ~testConfig.resolved
    /\ \E http \in TestSettings, tcp \in TestSettings :
         testConfig' = [resolved |-> TRUE, http |-> http, tcp |-> tcp,
                        httpTests |-> TestsFrom(http, DefaultHttpTests),
                        tcpTests |-> TestsFrom(tcp, DefaultTcpTests)]
    /\ UNCHANGED << now, storeVars, sent, cpuVars, health, metricsCalls, probes, runs,
                    schedVars, env, broadcasts, daily, connects, usageCalls, process,
                    calls, ticks >>

NextConfig == ResolveTests

SpecConfig == Init /\ [][NextConfig]_vars

-----------------------------------------------------------------------------
(***************************************************************************)
(* tests.js: runTcpTest lines 121-125 and 155, from the text of the target *)
(* to the arguments of socket.connect.  A target is a sequence of           *)
(* characters; NaN is null.                                                 *)
(***************************************************************************)
MaxTargetLen == 5

TargetChars == {"h", ":", "8", "0"}
TargetTexts == UNION { [1..n -> TargetChars] : n \in 0..MaxTargetLen }

Digits == {"0", "8"}
DigitValue(ch) == IF ch = "8" THEN 8 ELSE 0

\* The digits at the start of str, up to the first character that is none.
DigitPrefix(str) ==
    SubSeq(str, 1, CHOOSE n \in 0..Len(str) :
                       /\ \A k \in 1..n : str[k] \in Digits
                       /\ n < Len(str) => str[n + 1] \notin Digits)

RECURSIVE DecimalValue(_)
DecimalValue(digits) ==
    IF digits = << >> THEN 0
    ELSE 10 * DecimalValue(SubSeq(digits, 1, Len(digits) - 1))
           + DigitValue(digits[Len(digits)])

\* parseInt(str) over TargetChars: the number written by the digits at the
\* start of str, NaN when there is none or str is undefined.
ParseIntFirstDigit(str) ==
    IF ~str.set \/ DigitPrefix(str.text) = << >> THEN null
    ELSE DigitValue(str.text[1])
ParseInt(str) ==
    IF ~str.set \/ DigitPrefix(str.text) = << >> THEN null
    ELSE DecimalValue(DigitPrefix(str.text))

\* Line 123: const [host, port] = target.split(':'): the first two pieces,
\* port undefined when there is one piece only.
TargetParts(target) ==
    LET pieces == SplitOn(target, ":")
    IN [host |-> pieces[1],
        port |-> IF Len(pieces) >= 2 THEN [set |-> TRUE, text |-> pieces[2]]
                 ELSE [set |-> FALSE, text |-> << >>]]

\* Line 155: socket.connect(parseInt(port), host, ...), of one call of
\* runTcpTest.
ConnectTarget ==
    /\ Running
    /\ connects = << >>
    /\ \E target \in TargetTexts :
         connects' = Append(connects,
                            [target |-> target,
                             port |-> ParseInt(TargetParts(target).port),
                             host |-> TargetParts(target).host])
    /\ UNCHANGED << now, storeVars, sent, cpuVars, health, metricsCalls, probes, runs,
                    schedVars, env, broadcasts, daily, testConfig, usageCalls, process,
                    calls, ticks >>

NextTarget == ConnectTarget

SpecTarget == Init /\ [][NextTarget]_vars

-----------------------------------------------------------------------------
(***************************************************************************)
(* system.js lines 30-58: getCpuUsage called time after time, with tick     *)
(* readings far enough apart for the quotient to have a fraction.           *)
(***************************************************************************)
MaxCpuTick == 3
MaxCpuCalls == 3

\* Lines 31-43: the (idle, total) averages over os.cpus().
CpuTickReadings == [idle : 0..MaxCpuTick, total : 0..MaxCpuTick]

CallGetCpuUsage ==
    /\ Running
    /\ cpuReads < MaxCpuCalls
    /\ \E cur \in CpuTickReadings :
         /\ getCpuUsage(cur)
         /\ usageCalls' = Append(usageCalls,
                                 [reading |-> cur,
                                  returned |-> CpuPercentage(previousCpuInfo, cur)])
    /\ UNCHANGED << now, storeVars, sent, health, metricsCalls, probes, runs,
                    schedVars, env, broadcasts, daily, testConfig, connects, process,
                    calls, ticks >>

NextCpu == CallGetCpuUsage

SpecCpu == Init /\ [][NextCpu]_vars

-----------------------------------------------------------------------------
(***************************************************************************)
(* scheduler.js lines 43-50: the daily report's cron task, against the      *)
(* clock of the day, minute by minute.                                      *)
(***************************************************************************)
MaxDays == 1

Hours == 0..23
Minutes == 0..59

\* What DAILY_REPORT_HOUR may be set to: an hour of the day, or nothing.
ReportHourSettings == Hours \cup {null}

\* Line 44: parseInt(process.env.DAILY_REPORT_HOUR) || 9: NaN (unset) and 0
\* are falsy and give 9.
ReportHour(setting) == IF setting = null \/ setting = 0 THEN 9 ELSE setting

\* Line 45: the expression `${reportHour} 0 * * *`.  Of the five fields of a
\* cron expression the first is the minute and the second the hour.
DailyExpression(reportHour) == [minute |-> reportHour, hour |-> 0]

\* A cron task fires in the minutes its expression names (day of month, month
\* and day of week are * here).
CronMatches(expression, hour, minute) ==
    expression.minute = minute /\ expression.hour = hour

cronFrame == << now, storeVars, sent, cpuVars, health, metricsCalls, probes, runs,
                schedVars, env, broadcasts, testConfig, connects, usageCalls, process, calls, ticks >>

\* Lines 43-48: startMonitoring schedules the daily report.
ScheduleDailyReport ==
    /\ Running
    /\ daily.task = "undefined"
    /\ \E setting \in ReportHourSettings :
         daily' = [daily EXCEPT !.setting = setting,
                                !.task = "scheduled",
                                !.expression = DailyExpression(ReportHour(setting))]
    /\ UNCHANGED cronFrame

\* A minute of the clock passes; the task fires if the new minute is one of
\* its expression (lines 45-48).
MinutePasses ==
    /\ Running
    /\ daily.task = "scheduled"
    /\ ~(daily.day = MaxDays /\ daily.hour = 23 /\ daily.minute = 59)
    /\ LET minute == (daily.minute + 1) % 60
           hour == IF minute = 0 THEN (daily.hour + 1) % 24 ELSE daily.hour
           day == IF minute = 0 /\ hour = 0 THEN daily.day + 1 ELSE daily.day
       IN daily' = [daily EXCEPT
                       !.minute = minute, !.hour = hour, !.day = day,
                       !.fired = IF CronMatches(daily.expression, hour, minute)
                                 THEN Append(@, [day |-> day, hour |-> hour,
                                                 minute |-> minute])
                                 ELSE @]
    /\ UNCHANGED cronFrame

NextCron ==
    \/ ScheduleDailyReport
    \/ MinutePasses

SpecCron == Init /\ [][NextCron]_vars

-----------------------------------------------------------------------------
(***************************************************************************)
(* The classification of one sample (system.js lines 126-159), taken over  *)
(* readings on both sides of every threshold.                              *)
(***************************************************************************)
Levels(warning, critical) == {0, warning - 1, warning, critical - 1, critical, 100}

CpuLevels  == Levels(CPU_WARNING_THRESHOLD, CPU_CRITICAL_THRESHOLD)
RamLevels  == Levels(RAM_WARNING_THRESHOLD, RAM_CRITICAL_THRESHOLD)
DiskLevels == Levels(DISK_WARNING_THRESHOLD, DISK_CRITICAL_THRESHOLD) \cup {null}

classifyFrame == << now, storeVars, sent, cpuVars, metricsCalls, probes, runs, schedVars,
                    hostVars, calls, ticks >>

\* Lines 109-125: a cycle past the baseline pass stands before line 126 with
\* its three readings.
ReadingsTaken ==
    /\ Running
    /\ health = << >>
    /\ \E cpuUsage \in CpuLevels, ram \in RamLevels, disk \in DiskLevels :
         health' = << [pc |-> "classify", cpuUsage |-> cpuUsage, ram |-> ram, disk |-> disk,
                       status |-> "none", warnings |-> << >>,
                       warningMessage |-> WarningMessage(<< >>)] >>
    /\ UNCHANGED classifyFrame

\* Lines 126-159.
Classify ==
    /\ Running
    /\ health # << >>
    /\ health[1].pc = "classify"
    /\ LET h == health[1]
           warnings == SystemWarnings(h.cpuUsage, h.ram, h.disk)
       IN health' = << [h EXCEPT !.pc = "classified",
                                 !.status = SystemStatus(h.cpuUsage, h.ram, h.disk),
                                 !.warnings = warnings,
                                 !.warningMessage = WarningMessage(warnings)] >>
    /\ UNCHANGED classifyFrame

NextClassify ==
    \/ ReadingsTaken
    \/ Classify

SpecClassify == Init /\ [][NextClassify]_vars

-----------------------------------------------------------------------------
(***************************************************************************)
(* The claims.                                                             *)
(***************************************************************************)
\* The messages an invocation has handed to the notifier, in order.
RECURSIVE KindsFrom(_, _, _)
KindsFrom(op, id, i) ==
    IF i > Len(sent) THEN << >>
    ELSE (IF sent[i].op = op /\ sent[i].id = id THEN << sent[i].kind >> ELSE << >>)
         \o KindsFrom(op, id, i + 1)

KindsOf(op, id) == KindsFrom(op, id, 1)

CountOf(op, id, kind) ==
    Cardinality({ i \in DOMAIN sent : sent[i].op = op /\ sent[i].id = id /\ sent[i].kind = kind })

\* A cycle has produced a sample once it is past the CPU-baseline pass, which
\* is when it has read the last status.
ProducedSample(c) == health[c].lastStatus # "unread"

\* In ev, every a comes before every b.
Precedes(ev, a, b) ==
    \A i, j \in DOMAIN ev : (ev[i] = a /\ ev[j] = b) => i < j

\* C1: a cycle that produces a sample sends a system alert if and only if the
\* new severity differs from the last persisted one (none counts as different)
\* and is not healthy; a cycle that produces no sample sends none.
C1_AlertIffChangedAndUnhealthy ==
    \A c \in DOMAIN health :
        /\ CountOf("health", c, "SYSTEM ALERT") <= 1
        /\ ~ProducedSample(c) => CountOf("health", c, "SYSTEM ALERT") = 0
        /\ ProducedSample(c) =>
             ( CountOf("health", c, "SYSTEM ALERT") = 1
               <=> ( health[c].lastStatus # health[c].status
                     /\ health[c].status # "healthy" ) )

\* C1 witness: a finished cycle has alerted on a change from a stored severity.
C1_Witness ==
    \E c \in DOMAIN health :
        /\ health[c].pc = "done"
        /\ health[c].lastStatus \in Severities
        /\ CountOf("health", c, "SYSTEM ALERT") = 1

\* C2: a cycle that produces a sample sends a system recovery message if and
\* only if the new severity is healthy and a last persisted severity exists
\* and is not healthy.
C2_RecoveryIffHealthyAfterUnhealthy ==
    \A c \in DOMAIN health :
        /\ CountOf("health", c, "SYSTEM RECOVERY") <= 1
        /\ ~ProducedSample(c) => CountOf("health", c, "SYSTEM RECOVERY") = 0
        /\ ProducedSample(c) =>
             ( CountOf("health", c, "SYSTEM RECOVERY") = 1
               <=> ( health[c].status = "healthy"
                     /\ health[c].lastStatus \in {"warning", "critical"} ) )

\* C2 witness: a finished cycle has sent a recovery message.
C2_Witness ==
    \E c \in DOMAIN health :
        /\ health[c].pc = "done"
        /\ health[c].status = "healthy"
        /\ CountOf("health", c, "SYSTEM RECOVERY") = 1

\* C3: in a run of consecutive samples of the same non-healthy severity only
\* the first sample is alerted: a sample that follows one of its own
\* non-healthy severity has sent no alert.
C3_SpamSuppression ==
    \A i \in DOMAIN system_metrics :
        ( /\ i > 1
          /\ system_metrics[i].status # "healthy"
          /\ system_metrics[i - 1].status = system_metrics[i].status )
        => CountOf("health", system_metrics[i].cycle, "SYSTEM ALERT") = 0

\* The most recent result stored before row i for the same (type, target).
PriorTests(i) ==
    { j \in 1..(i - 1) : /\ tests[j].target = tests[i].target
                         /\ tests[j].test_type = tests[i].test_type }

PriorFailed(i) ==
    /\ PriorTests(i) # {}
    /\ \E j \in PriorTests(i) :
          /\ \A k \in PriorTests(i) : k <= j
          /\ tests[j].status = "failed"

\* C4: every stored result has is_recovery true if and only if its outcome is
\* success and the most recent result stored before it for the same
\* (test type, target) exists and is failed.
C4_IsRecoveryIffSuccessAfterFailed ==
    \A i \in DOMAIN tests :
        tests[i].is_recovery <=> (tests[i].status = "success" /\ PriorFailed(i))

FailureKind(type) == IF type = "http" THEN "HTTP TEST FAILED" ELSE "TCP TEST FAILED"
RecoveryKind(type) == IF type = "http" THEN "RECOVERY" ELSE "TCP RECOVERY"

\* C5: a settled probe that failed has sent exactly a failure alert; one that
\* succeeded has sent exactly a recovery alert if is_recovery, else nothing.
C5_ProbeAlertPolicy ==
    \A p \in DOMAIN probes :
        probes[p].pc = "done" =>
            KindsOf("probe", p) =
                IF probes[p].status = "failed" THEN << FailureKind(probes[p].type) >>
                ELSE IF probes[p].isRecovery THEN << RecoveryKind(probes[p].type) >>
                ELSE << >>

RowsOf(p) == { i \in DOMAIN tests : tests[i].probe = p }

\* C6: a probe whose promise has settled has appended exactly one result, and
\* one that is still pending has appended none; a later timer or socket event
\* never adds a second.
C6_ExactlyOneResult ==
    \A p \in DOMAIN probes :
        /\ probes[p].pc = "done" => (Cardinality(RowsOf(p)) = 1 /\ probes[p].inserts = 1)
        /\ probes[p].pc = "pending" => (RowsOf(p) = {} /\ probes[p].inserts = 0)

\* C7 (as claimed): in every probe and every system-health cycle the result
\* is appended only after its message has been dispatched, and after the
\* last-status read.
C7_StoreAfterDispatch ==
    /\ \A c \in DOMAIN health :
          /\ Precedes(health[c].ev, "send", "insert")
          /\ Precedes(health[c].ev, "read", "insert")
    /\ \A p \in DOMAIN probes :
          /\ Precedes(probes[p].ev, "send", "insert")
          /\ Precedes(probes[p].ev, "read", "insert")

\* C7 (amended): a system-health cycle appends its sample only after its
\* alert or recovery message has been dispatched; a probe appends its result
\* before it dispatches its message; in all of them the last status is read
\* before the append.
C7_StoreOrder ==
    /\ \A c \in DOMAIN health :
          /\ Precedes(health[c].ev, "send", "insert")
          /\ Precedes(health[c].ev, "read", "insert")
          /\ Precedes(health[c].ev, "read", "send")
    /\ \A p \in DOMAIN probes :
          /\ Precedes(probes[p].ev, "insert", "send")
          /\ Precedes(probes[p].ev, "read", "insert")

\* C7 witness: a cycle has stored its sample after alerting, and a probe has
\* alerted after storing its result.
C7_Witness ==
    /\ \E c \in DOMAIN health : health[c].ev = << "read", "send", "insert" >>
    /\ \E p \in DOMAIN probes : probes[p].ev = << "read", "insert", "send" >>

\* C8: once stopMonitoring has been called after startMonitoring, no test
\* cycle, system-health cycle or daily report is started any more.
C8_NoTriggerAfterStop ==
    [][ monitor.halted =>
          /\ Len(runs') = Len(runs)
          /\ Len(health') = Len(health)
          /\ Len(reports') = Len(reports) ]_vars

StopAll(tasks) == << StopTask(tasks[1]), StopTask(tasks[2]), StopTask(tasks[3]) >>

\* C9: a call of stopMonitoring leaves the three tasks in a state that a
\* further call does not change, whether or not they were set or stopped
\* before.
C9_StopIdempotent ==
    [][ monitor'.stops > monitor.stops =>
          /\ taskVars' = StopAll(taskVars)
          /\ StopAll(taskVars') = taskVars' ]_vars

\* C9 witness: stopMonitoring has been called twice on scheduled tasks.
C9_Witness ==
    /\ monitor.started
    /\ monitor.stops >= 2
    /\ dailyReportTask = "stopped"

\* The readings of the CPU in the order they were made.
CpuCalls ==
    { [reading |-> health[c].reading, times |-> health[c].times, cpu |-> health[c].cpuUsage]
        : c \in DOMAIN health }
    \cup
    { [reading |-> metricsCalls[m].reading, times |-> metricsCalls[m].times,
       cpu |-> metricsCalls[m].cpu] : m \in DOMAIN metricsCalls }

\* C10: the first CPU reading gives null, and a checkSystemHealth that made
\* it returns 'initializing'; every later reading gives a percentage in 0..100.
C10_CpuPercentage ==
    /\ \A r \in CpuCalls :
          IF r.reading = 1 THEN r.cpu = null ELSE r.cpu \in 0..100
    /\ \A c \in DOMAIN health :
          health[c].pc = "done" =>
              (health[c].result = "initializing" <=> health[c].reading = 1)

\* C10 witness: after the first reading a reading with the same total ticks
\* (a total delta of zero) has given a percentage, and the cycle that made
\* the first reading has returned 'initializing'.
C10_Witness ==
    /\ \E c \in DOMAIN health :
          health[c].reading = 1 /\ health[c].result = "initializing"
    /\ \E r, q \in CpuCalls :
          /\ q.reading = r.reading + 1
          /\ q.times.total = r.times.total
          /\ q.cpu \in 0..100


Rank(severity) == IF severity = "critical" THEN 2 ELSE IF severity = "warning" THEN 1 ELSE 0

Bucket(value, warning, critical) ==
    IF value = null THEN "healthy"
    ELSE IF value >= critical THEN "critical"
    ELSE IF value >= warning THEN "warning"
    ELSE "healthy"

Buckets(h) ==
    { Bucket(h.cpuUsage, CPU_WARNING_THRESHOLD, CPU_CRITICAL_THRESHOLD),
      Bucket(h.ram, RAM_WARNING_THRESHOLD, RAM_CRITICAL_THRESHOLD),
      Bucket(h.disk, DISK_WARNING_THRESHOLD, DISK_CRITICAL_THRESHOLD) }

\* C11: the severity of a classified sample is the greatest of the buckets of
\* its CPU, RAM and (if present) disk readings.
C11_SeverityIsMaximum ==
    \A c \in DOMAIN health :
        health[c].pc = "classified" =>
            /\ health[c].status \in Buckets(health[c])
            /\ \A b \in Buckets(health[c]) : Rank(b) <= Rank(health[c].status)

\* C11 witness: a sample whose RAM is critical and whose CPU and disk are at
\* the warning level has been classified critical.
C11_Witness ==
    \E c \in DOMAIN health :
        /\ health[c].pc = "classified"
        /\ health[c].ram = RAM_CRITICAL_THRESHOLD
        /\ health[c].cpuUsage = CPU_WARNING_THRESHOLD
        /\ health[c].disk = DISK_WARNING_THRESHOLD
        /\ health[c].status = "critical"

ResourceOf(warning) ==
    IF warning \in {"RAM critically low", "RAM usage high"} THEN "ram"
    ELSE IF warning \in {"CPU critically high", "CPU usage high"} THEN "cpu"
    ELSE "disk"

EntriesOf(h, resource) == { i \in DOMAIN h.warnings : ResourceOf(h.warnings[i]) = resource }

AtWarning(value, warning) == value # null /\ value >= warning

\* The warnings list each resource at or above its warning threshold once and
\* no other, and the message is null exactly for a healthy sample.
WarningsComplete(h) ==
    /\ Cardinality(EntriesOf(h, "cpu")) = IF AtWarning(h.cpuUsage, CPU_WARNING_THRESHOLD) THEN 1 ELSE 0
    /\ Cardinality(EntriesOf(h, "ram")) = IF AtWarning(h.ram, RAM_WARNING_THRESHOLD) THEN 1 ELSE 0
    /\ Cardinality(EntriesOf(h, "disk")) = IF AtWarning(h.disk, DISK_WARNING_THRESHOLD) THEN 1 ELSE 0
    /\ h.warningMessage.isNull <=> h.status = "healthy"
    /\ ~h.warningMessage.isNull => h.warningMessage.parts = h.warnings

\* The entries come in the order first, second, third.
WarningsOrdered(h, first, second, third) ==
    \A i, j \in DOMAIN h.warnings :
        i < j => << ResourceOf(h.warnings[i]), ResourceOf(h.warnings[j]) >>
                    \in { << first, second >>, << first, third >>, << second, third >> }

\* C12 (as claimed): the warning message lists exactly the resources at or
\* above their warning threshold, once each, in the order CPU, RAM, disk, and
\* is null exactly when the severity is healthy.
C12_WarningsCpuRamDisk ==
    \A c \in DOMAIN health :
        health[c].pc = "classified" =>
            /\ WarningsComplete(health[c])
            /\ WarningsOrdered(health[c], "cpu", "ram", "disk")

\* C12 (amended): the warning message lists exactly the resources at or above
\* their warning threshold, once each, in the order RAM, CPU, disk, and is
\* null exactly when the severity is healthy.
C12_WarningsRamCpuDisk ==
    \A c \in DOMAIN health :
        health[c].pc = "classified" =>
            /\ WarningsComplete(health[c])
            /\ WarningsOrdered(health[c], "ram", "cpu", "disk")

\* C12 witness: a sample with all three resources above their warning
\* thresholds has its three entries.
C12_Witness ==
    \E c \in DOMAIN health :
        /\ health[c].pc = "classified"
        /\ health[c].warnings = << "RAM usage high", "CPU critically high", "Disk storage low" >>
        /\ ~health[c].warningMessage.isNull


-----------------------------------------------------------------------------
\* The rows of system_metrics a cycle has stored.
SamplesOf(c) == { i \in DOMAIN system_metrics : system_metrics[i].cycle = c }

\* The buckets of the CPU and RAM readings of a cycle.
CpuRamBuckets(h) ==
    { Bucket(h.cpuUsage, CPU_WARNING_THRESHOLD, CPU_CRITICAL_THRESHOLD),
      Bucket(h.ram, RAM_WARNING_THRESHOLD, RAM_CRITICAL_THRESHOLD) }

\* C13: a cycle whose disk query gave nothing classifies the sample from CPU
\* and RAM alone, decides alert and recovery as any other cycle does, and, once
\* finished, has stored exactly one row, with a null disk percentage, and has
\* returned the severity, never the error result.
C13_DiskFailureTolerated ==
    \A c \in DOMAIN health :
        (ProducedSample(c) /\ health[c].disk = null) =>
            /\ health[c].status \in CpuRamBuckets(health[c])
            /\ \A b \in CpuRamBuckets(health[c]) : Rank(b) <= Rank(health[c].status)
            /\ CountOf("health", c, "SYSTEM ALERT") = 1
                  <=> ( health[c].lastStatus # health[c].status
                        /\ health[c].status # "healthy" )
            /\ CountOf("health", c, "SYSTEM RECOVERY") = 1
                  <=> ( health[c].status = "healthy"
                        /\ health[c].lastStatus \in {"warning", "critical"} )
            /\ health[c].result \in {"pending", health[c].status}
            /\ health[c].pc = "done" =>
                  /\ health[c].result = health[c].status
                  /\ Cardinality(SamplesOf(c)) = 1
                  /\ \A i \in SamplesOf(c) :
                        /\ system_metrics[i].disk_usage_percent = null
                        /\ system_metrics[i].status = health[c].status

\* C13 witness: a finished cycle without a disk reading has stored a sample
\* that is not healthy and has alerted on it.
C13_Witness ==
    \E c \in DOMAIN health :
        /\ health[c].pc = "done"
        /\ ProducedSample(c)
        /\ health[c].disk = null
        /\ health[c].status # "healthy"
        /\ SamplesOf(c) # {}
        /\ CountOf("health", c, "SYSTEM ALERT") = 1


-----------------------------------------------------------------------------
\* C14: when an insert into the store throws during a probe or a health
\* cycle, the process keeps running, the operation settles without rejecting
\* (a health cycle with the error result), and the alert the observed outcome
\* warrants has been sent: a failure alert for a failed probe, a system alert
\* for a changed severity that is not healthy.
C14_StoreFailureContained ==
    /\ \A p \in DOMAIN probes :
          probes[p].storeFailed =>
              /\ process = "running"
              /\ probes[p].pc = "done"
              /\ ~probes[p].rejected
              /\ probes[p].status = "failed" =>
                    CountOf("probe", p, FailureKind(probes[p].type)) = 1
    /\ \A c \in DOMAIN health :
          health[c].storeFailed =>
              /\ health[c].pc = "done"
              /\ health[c].result = "error"
              /\ CountOf("health", c, "SYSTEM ALERT") = 1
                    <=> ( health[c].lastStatus # health[c].status
                          /\ health[c].status # "healthy" )


-----------------------------------------------------------------------------
\* A notification of the operation (op, id) has settled with a delivery that
\* failed for at least one recipient.
FailedDelivery(op, id) ==
    \E i \in DOMAIN sent :
        /\ sent[i].op = op
        /\ sent[i].id = id
        /\ sent[i].delivery # "pending"
        /\ \E k \in DOMAIN sent[i].delivery : sent[i].delivery[k] = "fail"

\* C15: a notification that fails for some or all recipients changes nothing
\* else: the probe has stored its row and has settled, rejected only where its
\* connect call had thrown before any notification; the health cycle stores
\* its sample and returns the severity; and the process keeps running (it
\* ends only where an insert has thrown), so that the next cycle runs.
C15_DeliveryFailureTolerated ==
    /\ process = "crashed" => \E p \in DOMAIN probes : probes[p].storeFailed
    /\ \A p \in DOMAIN probes :
          FailedDelivery("probe", p) =>
              /\ probes[p].pc = "done"
              /\ probes[p].rejected => ConnectThrows(probes[p])
              /\ \E i \in RowsOf(p) : tests[i].status = probes[p].status
    /\ \A c \in DOMAIN health :
          (FailedDelivery("health", c) /\ ~health[c].storeFailed) =>
              /\ health[c].result \in {"pending", health[c].status}
              /\ health[c].pc = "done" =>
                    /\ health[c].result = health[c].status
                    /\ Cardinality(SamplesOf(c)) = 1

\* C15 witness: a health cycle whose alert reached no recipient has finished
\* with its sample stored, and a probe's alert has failed for a recipient.
C15_Witness ==
    /\ process = "running"
    /\ \E c \in DOMAIN health :
          /\ health[c].pc = "done"
          /\ health[c].result = health[c].status
          /\ \E i \in DOMAIN sent :
                /\ sent[i].op = "health"
                /\ sent[i].id = c
                /\ sent[i].delivery = << "fail", "fail" >>
    /\ \E p \in DOMAIN probes : FailedDelivery("probe", p)


-----------------------------------------------------------------------------
\* The configured chat ids of a setting that are not empty, in order.
NonEmptyIds(setting) == SelectSeq(ChatIds(setting), LAMBDA id : id # << >>)

\* C16: a call of sendToAllUsers never rejects; the recipients it has tried
\* so far are the first of the non-empty configured chat ids, each once and
\* in the configured order, whatever the outcome of each attempt; and once it
\* has resolved it has tried them all.
C16_EachRecipientOnceInOrder ==
    \A b \in DOMAIN broadcasts :
        LET call == broadcasts[b]
            ids == NonEmptyIds(call.setting)
        IN /\ call.pc # "rejected"
           /\ Len(call.attempts) <= Len(ids)
           /\ \A k \in DOMAIN call.attempts : call.attempts[k].chatId = ids[k]
           /\ call.pc = "resolved" => Len(call.attempts) = Len(ids)

\* C16 witness: a call has resolved after trying two recipients, the first of
\* which failed, of a setting that holds an empty entry as well.
C16_Witness ==
    \E b \in DOMAIN broadcasts :
        /\ broadcasts[b].pc = "resolved"
        /\ Len(broadcasts[b].attempts) = 2
        /\ broadcasts[b].attempts[1].outcome = "fail"
        /\ broadcasts[b].attempts[1].chatId # broadcasts[b].attempts[2].chatId
        /\ Len(broadcasts[b].chatIds) > 2

-----------------------------------------------------------------------------
\* The hour the daily report is configured for: the setting, 9 where unset.
ConfiguredHour == IF daily.setting = null THEN 9 ELSE daily.setting

\* The firings of the daily task on the day d.
FiredOn(d) == { k \in DOMAIN daily.fired : daily.fired[k].day = d }

\* C17: for every configured hour H of 0..23 (9 where unset) the daily task
\* fires at H:00 and at no other time, and once on every day that has passed
\* in full.
C17_DailyAtConfiguredHour ==
    /\ \A k \in DOMAIN daily.fired :
          daily.fired[k].hour = ConfiguredHour /\ daily.fired[k].minute = 0
    /\ \A d \in 1..MaxDays :
          (daily.day = d /\ daily.hour = 23 /\ daily.minute = 59) =>
              Cardinality(FiredOn(d)) = 1


-----------------------------------------------------------------------------
\* C18: a daily report that fails (its promise rejects) leaves the process
\* running, so that the test and health cycles go on.
C18_ReportFailureContained ==
    \A r \in DOMAIN reports : reports[r].pc = "rejected" => process = "running"


-----------------------------------------------------------------------------
\* C19: startMonitoring starts one test cycle at once, and once that cycle
\* has settled, whatever its outcome, the periodic test task is installed.
C19_TestTriggerInstalled ==
    monitor.started =>
        /\ monitor.initial \in DOMAIN runs
        /\ runs[monitor.initial].done => testInterval # "undefined"

-----------------------------------------------------------------------------
\* The test cycles in progress.
RunningCycles == { r \in DOMAIN runs : ~runs[r].done }

\* C20: at most one test cycle is in progress at any time, also where a cycle
\* takes longer than the interval.
C20_NoOverlappingCycles == Cardinality(RunningCycles) <= 1

\* C20, amended: the initial cycle completes before the first scheduled
\* trigger begins: while it is in progress no other cycle is.
C20_InitialCycleNotOverlapped ==
    \A r \in RunningCycles : r = monitor.initial => RunningCycles = {r}

\* C20 witness: the initial cycle has completed and two scheduled cycles are
\* in progress at once.
C20_Witness ==
    /\ monitor.started
    /\ runs[monitor.initial].done
    /\ Cardinality(RunningCycles) = 2


-----------------------------------------------------------------------------
\* C21: the bootstrap pass of the system-health stream only seeds the CPU
\* baseline: it reads no last severity, sends nothing and stores no sample;
\* any other health check is started only once the bootstrap pass has
\* completed and the grace timer has fired; the first of them has a CPU
\* reading; and the periodic task is installed only once that first real
\* check has started.
C21_HealthStartupOrder ==
    monitor.bootstrap # 0 =>
        LET b == monitor.bootstrap
        IN /\ health[b].lastStatus = "unread"
           /\ health[b].ev = << >>
           /\ KindsOf("health", b) = << >>
           /\ SamplesOf(b) = {}
           /\ health[b].result \in {"pending", "initializing"}
           /\ Len(health) > b =>
                 /\ health[b].pc = "done"
                 /\ monitor.grace = "fired"
                 /\ health[b + 1].cpuUsage # null
           /\ systemMonitorInterval # "undefined" => Len(health) > b

\* C21 witness: after the bootstrap pass and the first real check a periodic
\* check has been started.
C21_Witness ==
    /\ monitor.bootstrap # 0
    /\ Len(health) >= monitor.bootstrap + 2
    /\ health[monitor.bootstrap].result = "initializing"
    /\ health[monitor.bootstrap + 1].pc = "done"


-----------------------------------------------------------------------------
\* The probes the cycle r has started, in the order of their start.
ProbesOf(r) == SelectSeq([p \in DOMAIN probes |-> p], LAMBDA p : probes[p].run = r)

\* C22: a cycle probes the configured targets once each, the HTTP targets in
\* configured order and then the TCP targets in configured order, and, once
\* it has ended, has probed all of them and returns one result per target in
\* that order; it never ends by rejecting.
C22_OneProbePerTarget ==
    \A r \in DOMAIN runs :
        LET started == ProbesOf(r)
        IN /\ Len(started) <= Len(AllTests)
           /\ \A k \in DOMAIN started :
                 /\ probes[started[k]].type = AllTests[k].type
                 /\ probes[started[k]].target = AllTests[k].target
           /\ runs[r].done =>
                 /\ ~runs[r].rejected
                 /\ Len(started) = Len(AllTests)
                 /\ Len(runs[r].results) = Len(AllTests)
                 /\ \A k \in DOMAIN runs[r].results :
                       /\ runs[r].results[k].type = AllTests[k].type
                       /\ runs[r].results[k].name = AllTests[k].name


-----------------------------------------------------------------------------
\* A probe whose promise is not settled has its deadline in place: its timer
\* is armed, or (runHttpTest) has fired and aborted the request.
DeadlineInPlace ==
    \A p \in DOMAIN probes :
        probes[p].pc = "pending" => (probes[p].timer \/ probes[p].aborted)

\* C23: every started probe completes, whether or not the peer ever answers:
\* as long as its promise is not settled its deadline is in place, and its
\* promise does settle.
C23_EveryProbeSettles ==
    /\ []DeadlineInPlace
    /\ \A p \in 1..MaxCalls :
          (p \in DOMAIN probes) ~> (p \in DOMAIN probes /\ probes[p].pc = "done")

\* C23 witness: a TCP probe and an HTTP probe have both ended by their timers.
C23_Witness ==
    /\ \E p \in DOMAIN probes :
          /\ probes[p].type = "tcp"
          /\ probes[p].pc = "done"
          /\ probes[p].errorMessage = << "Connection timeout" >>
    /\ \E p \in DOMAIN probes :
          /\ probes[p].type = "http"
          /\ probes[p].pc = "done"
          /\ probes[p].errorMessage = << "Request timeout" >>


-----------------------------------------------------------------------------
\* The last result the probe that stored the row i had read.
LastRead(i) == probes[tests[i].probe].lastResult

\* C24: the last result a probe compares with is a stored result of its own
\* test type and target, none where there is no such row, whatever rows of
\* the other test type with the same address, of other targets or of the
\* same display name are stored; is_recovery and the notification are the
\* same for any two probes of one type that agree in their own outcome
\* (status and error message) and in that last result.
C24_KeyedByTypeAndTarget ==
    /\ \A i \in DOMAIN tests :
          /\ LastRead(i) # "unread"
          /\ PriorTests(i) = {} => (LastRead(i) = "none" /\ ~tests[i].is_recovery)
          /\ PriorTests(i) # {} => \E j \in PriorTests(i) : tests[j].status = LastRead(i)
    /\ \A i, j \in DOMAIN tests :
          ( /\ tests[i].test_type = tests[j].test_type
            /\ tests[i].status = tests[j].status
            /\ tests[i].error_message = tests[j].error_message
            /\ LastRead(i) = LastRead(j) ) =>
              /\ tests[i].is_recovery = tests[j].is_recovery
              /\ KindsOf("probe", tests[i].probe) = KindsOf("probe", tests[j].probe)

\* C24 witness: a TCP probe has succeeded without recovery after a failed HTTP
\* result of the same address and name, and with no TCP result before it.
C24_Witness ==
    \E i \in DOMAIN tests :
        /\ tests[i].test_type = "tcp"
        /\ tests[i].status = "success"
        /\ ~tests[i].is_recovery
        /\ PriorTests(i) = {}
        /\ \E j \in 1..(i - 1) :
              /\ tests[j].test_type = "http"
              /\ tests[j].target = tests[i].target
              /\ tests[j].test_name = tests[i].test_name
              /\ tests[j].status = "failed"


-----------------------------------------------------------------------------
\* C25: the last result a probe reads is that of the row appended most
\* recently for its test type and target, also where several rows of the pair
\* carry the same timestamp.
C25_LastIsMostRecentlyAppended ==
    \A i \in DOMAIN tests :
        PriorTests(i) # {} =>
            \E j \in PriorTests(i) :
                /\ \A k \in PriorTests(i) : k <= j
                /\ LastRead(i) = tests[j].status


-----------------------------------------------------------------------------
\* A setting that configures no target: unset, empty, or made of separators
\* and blanks only.
NoTargets(setting) ==
    ~setting.set \/ \A k \in DOMAIN setting.text : setting.text[k] \in {",", " "}

\* C26: where a setting configures no target the cycle runs the built-in
\* tests of that kind, whatever the other setting is, and no cycle runs with
\* no test of a kind.
C26_DefaultsWhenNoTargets ==
    testConfig.resolved =>
        /\ NoTargets(testConfig.http) => testConfig.httpTests = DefaultHttpTests
        /\ NoTargets(testConfig.tcp) => testConfig.tcpTests = DefaultTcpTests
        /\ Len(testConfig.httpTests) > 0
        /\ Len(testConfig.tcpTests) > 0


-----------------------------------------------------------------------------
\* C27: a probe that has received a response with the status code c is a
\* success if and only if c < 400; a failed one carries the error message
\* "HTTP c", a successful one none; and the row it stores says the same.
C27_HttpClassification ==
    \A p \in DOMAIN probes :
        probes[p].code # null =>
            /\ probes[p].type = "http"
            /\ probes[p].status = "success" <=> probes[p].code < 400
            /\ probes[p].status = "failed" <=> probes[p].code >= 400
            /\ probes[p].status = "failed" =>
                  probes[p].errorMessage = << "HTTP", probes[p].code >>
            /\ probes[p].status = "success" => probes[p].errorMessage = << >>
            /\ \A i \in RowsOf(p) :
                  /\ tests[i].status = probes[p].status
                  /\ tests[i].error_message = probes[p].errorMessage

\* C27 witness: a response of 399 and a response of 400 have both been
\* classified and stored.
C27_Witness ==
    /\ \E p \in DOMAIN probes :
          probes[p].code = 399 /\ probes[p].pc = "done" /\ RowsOf(p) # {}
    /\ \E p \in DOMAIN probes :
          probes[p].code = 400 /\ probes[p].pc = "done" /\ RowsOf(p) # {}


-----------------------------------------------------------------------------
\* The number a text of digits writes, digit by digit from the left.
RECURSIVE NumberWritten(_, _)
NumberWritten(text, acc) ==
    IF text = << >> THEN acc
    ELSE NumberWritten(Tail(text), 10 * acc + (IF Head(text) = "8" THEN 8 ELSE 0))

\* The target is host, colon, port: one colon, a host before it, and after
\* it the digits of a port number.
HostColonPort(target, k) ==
    /\ k \in DOMAIN target
    /\ target[k] = ":"
    /\ \A j \in DOMAIN target : target[j] = ":" => j = k
    /\ k > 1
    /\ k < Len(target)
    /\ \A j \in (k + 1)..Len(target) : target[j] \in {"0", "8"}
    /\ NumberWritten(SubSeq(target, k + 1, Len(target)), 0) <= 65535

\* C28: for a target of the form "host:port", the socket.connect call gets
\* the text before the colon as the host and the number written after the
\* colon as the port.
C28_HostAndPortOfTarget ==
    \A i \in DOMAIN connects :
        \A k \in DOMAIN connects[i].target :
            HostColonPort(connects[i].target, k) =>
                /\ connects[i].host = SubSeq(connects[i].target, 1, k - 1)
                /\ connects[i].port =
                      NumberWritten(SubSeq(connects[i].target, k + 1,
                                           Len(connects[i].target)), 0)

\* C28 witness: "h:80" has been connected to, host "h" and port 80.
C28_Witness ==
    \E i \in DOMAIN connects :
        /\ connects[i].target = << "h", ":", "8", "0" >>
        /\ connects[i].host = << "h" >>
        /\ connects[i].port = 80


-----------------------------------------------------------------------------
\* The TCP probes.
TcpProbes == { p \in DOMAIN probes : probes[p].type = "tcp" }

\* C29: of the three handlers of a TCP probe - connect, deadline timer,
\* socket error - at most one ever runs, the one whose event comes first; it
\* decides the result (connect: success; timer: failed, "Connection
\* timeout"; error: failed with the socket's error), and the probe has at
\* most one stored row and one notification, both from that handler.
C29_FirstTcpEventDecides ==
    \A p \in TcpProbes :
        /\ Len(probes[p].handled) <= 1
        /\ Cardinality(RowsOf(p)) <= Len(probes[p].handled)
        /\ Len(KindsOf("probe", p)) <= Len(probes[p].handled)
        /\ probes[p].handled = << >> => probes[p].status = "none"
        /\ probes[p].handled = << "connect" >> =>
              probes[p].status = "success" /\ probes[p].errorMessage = << >>
        /\ probes[p].handled = << "timer" >> =>
              probes[p].status = "failed"
              /\ probes[p].errorMessage = << "Connection timeout" >>
        /\ probes[p].handled = << "error" >> =>
              probes[p].status = "failed"
              /\ probes[p].errorMessage = << "socket error" >>
        /\ \A i \in RowsOf(p) :
              /\ tests[i].status = probes[p].status
              /\ tests[i].error_message = probes[p].errorMessage
        /\ probes[p].handled # << >> =>
              ~probes[p].timer /\ probes[p].socket # "connecting"

\* C29 witness: three TCP probes have settled, one by each of the three
\* events, each with its one row.
C29_Witness ==
    \E p \in TcpProbes, q \in TcpProbes, r \in TcpProbes :
        /\ probes[p].handled = << "connect" >> /\ probes[p].pc = "done"
        /\ probes[q].handled = << "timer" >> /\ probes[q].pc = "done"
        /\ probes[r].handled = << "error" >> /\ probes[r].pc = "done"
        /\ Cardinality(RowsOf(p) \cup RowsOf(q) \cup RowsOf(r)) = 3


-----------------------------------------------------------------------------
\* t is the quotient a / b cut to an integer towards zero.
IsTruncatedQuotient(t, a, b) ==
    /\ (IF t < 0 THEN -t ELSE t) * (IF b < 0 THEN -b ELSE b)
          <= (IF a < 0 THEN -a ELSE a)
    /\ (IF a < 0 THEN -a ELSE a)
          < ((IF t < 0 THEN -t ELSE t) + 1) * (IF b < 0 THEN -b ELSE b)
    /\ t > 0 => (a > 0) = (b > 0)
    /\ t < 0 => (a > 0) # (b > 0)

\* v is 100 - t brought into 0..100.
IsClampedUsage(v, t) ==
    IF 100 - t < 0 THEN v = 0 ELSE IF 100 - t > 100 THEN v = 100 ELSE v = 100 - t

\* C30: after every call of getCpuUsage the baseline is the reading of that
\* call; the first call returns null, and every later call returns
\* 100 - t brought into 0..100, where t is 100 * idle delta / total delta
\* cut to an integer, the deltas taken against the reading of the call just
\* before (t is 0 where the total delta is 0, the quotient being no number).
C30_CpuUsageFromPrecedingCall ==
    /\ usageCalls # << >> => previousCpuInfo = usageCalls[Len(usageCalls)].reading
    /\ \A i \in DOMAIN usageCalls :
          IF i = 1 THEN usageCalls[i].returned = null
          ELSE LET idleDelta == usageCalls[i].reading.idle - usageCalls[i - 1].reading.idle
                   totalDelta == usageCalls[i].reading.total - usageCalls[i - 1].reading.total
               IN \E t \in -(100 * MaxCpuTick)..(100 * MaxCpuTick) :
                     /\ IF totalDelta = 0 THEN t = 0
                        ELSE IsTruncatedQuotient(t, 100 * idleDelta, totalDelta)
                     /\ IsClampedUsage(usageCalls[i].returned, t)

\* C30 witness: a third call whose reading differs from the second by one
\* idle tick in three, so that the quotient 33.3 is cut to 33 and 67 is
\* returned, while against the first reading the usage would be another.
C30_Witness ==
    /\ Len(usageCalls) = 3
    /\ usageCalls[1].reading = [idle |-> 2, total |-> 2]
    /\ usageCalls[2].reading = [idle |-> 0, total |-> 0]
    /\ usageCalls[3].reading = [idle |-> 1, total |-> 3]
    /\ usageCalls[3].returned = 67
    /\ previousCpuInfo = [idle |-> 1, total |-> 3]


-----------------------------------------------------------------------------
\* C31: the CPU baseline is written by system-health cycles only: it is
\* always the reading of the latest cycle (none before the first), and the
\* usage of every cycle after the first is taken against the reading of the
\* cycle before it.
C31_BaselineOwnedByHealthCycles ==
    /\ previousCpuInfo = IF health = << >> THEN NoCpuInfo
                         ELSE health[Len(health)].times
    /\ \A c \in DOMAIN health :
          health[c].cpuUsage = IF c = 1 THEN null
                               ELSE CpuPercentage(health[c - 1].times, health[c].times)


-----------------------------------------------------------------------------
\* The stored samples whose cycle has sent a message of the kind.
SamplesWith(kind) ==
    { i \in DOMAIN system_metrics : CountOf("health", system_metrics[i].cycle, kind) > 0 }

\* C32: one change of severity is alerted at most once and one return to
\* healthy is announced at most once, whether or not cycles overlap: between
\* the samples of two cycles that alerted the same severity, and between the
\* samples of two cycles that announced a recovery, the history holds a
\* sample of another severity.
C32_OneMessagePerChange ==
    /\ \A i, j \in SamplesWith("SYSTEM ALERT") :
          (i < j /\ system_metrics[i].status = system_metrics[j].status)
          => \E k \in (i + 1)..(j - 1) :
                 system_metrics[k].status # system_metrics[i].status
    /\ \A i, j \in SamplesWith("SYSTEM RECOVERY") :
          i < j => \E k \in (i + 1)..(j - 1) : system_metrics[k].status # "healthy"


-----------------------------------------------------------------------------
\* C33: every stored change from failed to success - a success whose pair
\* (test type, target) had a failed result appended last before it - is
\* stored with is_recovery true by a probe that read that failed result and
\* sent exactly one recovery message, also where probes of the pair overlap.
C33_OneRecoveryPerChange ==
    \A i \in DOMAIN tests :
        (tests[i].status = "success" /\ PriorFailed(i)) =>
            /\ LastRead(i) = "failed"
            /\ tests[i].is_recovery
            /\ CountOf("probe", tests[i].probe, RecoveryKind(tests[i].test_type)) = 1
            /\ Len(KindsOf("probe", tests[i].probe)) = 1


-----------------------------------------------------------------------------
\* The history earlier is the beginning of the history later.
IsPrefix(earlier, later) ==
    /\ Len(earlier) <= Len(later)
    /\ SubSeq(later, 1, Len(earlier)) = earlier

\* C34: no step of a probe, of a system-health cycle, of the scheduler or of
\* a report run changes or removes a stored test result or system sample:
\* the histories before a step are prefixes of the histories after it.
C34_HistoriesAppendOnly ==
    [][ /\ IsPrefix(tests, tests')
        /\ IsPrefix(system_metrics, system_metrics') ]_vars

\* C34 witness: both histories hold two rows or more, a report has run over
\* them and the scheduler has been stopped.
C34_Witness ==
    /\ Len(tests) >= 2
    /\ Len(system_metrics) >= 2
    /\ \E r \in DOMAIN reports : reports[r].pc \notin {"chart", "rejected"}
    /\ monitor.stops >= 1


-----------------------------------------------------------------------------
\* C35: a system-health cycle always returns a result and never rejects: a
\* cycle in which the store threw has returned the result 'error'; a cycle
\* that returned 'error' has appended no sample, and one that returned a
\* severity has appended exactly one, of that severity.
C35_HealthErrorsReturned ==
    \A c \in DOMAIN health :
        /\ health[c].pc = "done" <=> health[c].result # "pending"
        /\ health[c].result \in {"pending", "initializing", "error"} \cup Severities
        /\ health[c].storeFailed => health[c].result = "error"
        /\ health[c].result = "error" => SamplesOf(c) = {}
        /\ health[c].result \in Severities =>
              /\ Cardinality(SamplesOf(c)) = 1
              /\ \A i \in SamplesOf(c) : system_metrics[i].status = health[c].result

\* C35 witness: one cycle has returned 'error' after its insert threw, with
\* its alert sent before, and another after its query threw.
C35_Witness ==
    \E c, d \in DOMAIN health :
        /\ health[c].result = "error"
        /\ health[c].storeFailed
        /\ CountOf("health", c, "SYSTEM ALERT") = 1
        /\ health[d].result = "error"
        /\ ~health[d].storeFailed
        /\ health[d].lastStatus = "unread"


-----------------------------------------------------------------------------
\* C36: a probe and a system-health cycle each send at most one message; a
\* probe that has sent a failure message has stored the status failed, and
\* one that has sent a recovery message has stored the status success.
C36_OneFittingMessage ==
    /\ \A c \in DOMAIN health : Len(KindsOf("health", c)) <= 1
    /\ \A p \in DOMAIN probes :
          /\ Len(KindsOf("probe", p)) <= 1
          /\ CountOf("probe", p, FailureKind(probes[p].type)) > 0 =>
                /\ RowsOf(p) # {}
                /\ \A i \in RowsOf(p) : tests[i].status = "failed"
          /\ CountOf("probe", p, RecoveryKind(probes[p].type)) > 0 =>
                /\ RowsOf(p) # {}
                /\ \A i \in RowsOf(p) : tests[i].status = "success"

=============================================================================
